---- MODULE Spec2Model ----
(***************************************************************************)
(* Conversation state machine of the customer-support chat agent:         *)
(* validators, contact-form controller, session store and the per-turn    *)
(* orchestrator (ChatBot.process_message).                                *)
(*                                                                         *)
(* Text.  A Python str is modelled as a sequence of tokens.  What a user  *)
(* types is a sequence of one-character tokens, so strip(), lower(),      *)
(* len() and the regular expressions of the validators are computed       *)
(* character by character.  A literal of the program (a prompt, an error  *)
(* message) is one token, and an f-string is the concatenation (\o) of    *)
(* its literal chunks and its arguments.                                   *)
(* Python's None is the token sequence None below; a dict is a function   *)
(* whose domain is the set of its keys.                                    *)
(***************************************************************************)
EXTENDS Integers, Sequences, FiniteSets, TLC

VARIABLES
    session_manager,   \* the SessionManager singleton: its fields
    mongodb_client,    \* ChatbotAgent.mongodb_client: TRUE configured, FALSE None
    contact_requests,  \* the Mongo collection "contact_requests", in insertion order
    sessions,          \* the Mongo collection "sessions", in insertion order
    issued,            \* the session ids uuid4 has returned so far
    last,              \* the call in progress or the last call made, with what it returned
    memory_manager,    \* a SessionManager constructed while Redis was down, given the
                       \* same calls as session_manager where the two are compared
    clients,           \* text_to_voice_server.clients: sid -> session id
    active_responses,  \* text_to_voice_server.active_responses: sid -> task, interrupted
    tasks,             \* the response tasks of the event loop and the process_message
                       \* calls they handed to the thread pool
    emitted            \* the events sent to the clients, in the order of sio.emit

vars == <<session_manager, mongodb_client, contact_requests, sessions, issued, last,
          memory_manager, clients, active_responses, tasks, emitted>>

\* The Socket.IO front end
front_end == <<clients, active_responses, tasks, emitted>>

-----------------------------------------------------------------------------
(* Characters and str methods                                              *)

Whitespace == {" ", "\t", "\n"}

UpperLetters == <<"A","B","C","D","E","F","G","H","I","J","K","L","M",
                  "N","O","P","Q","R","S","T","U","V","W","X","Y","Z">>
LowerLetters == <<"a","b","c","d","e","f","g","h","i","j","k","l","m",
                  "n","o","p","q","r","s","t","u","v","w","x","y","z">>

Range(s) == {s[i] : i \in DOMAIN s}

Letters == Range(UpperLetters) \cup Range(LowerLetters)
Digits == {"0","1","2","3","4","5","6","7","8","9"}

None == <<"None">>

RECURSIVE lstrip(_)
lstrip(s) ==
    IF s = <<>> THEN s
    ELSE IF Head(s) \in Whitespace THEN lstrip(Tail(s)) ELSE s

RECURSIVE rstrip(_)
rstrip(s) ==
    IF s = <<>> THEN s
    ELSE IF s[Len(s)] \in Whitespace THEN rstrip(SubSeq(s, 1, Len(s) - 1)) ELSE s

\* str.strip()
strip(s) == rstrip(lstrip(s))

lower_char(c) ==
    IF c \in Range(UpperLetters)
    THEN LowerLetters[CHOOSE i \in DOMAIN UpperLetters : UpperLetters[i] = c]
    ELSE c

\* str.lower()
lower(s) == [i \in 1..Len(s) |-> lower_char(s[i])]

\* str.replace(ch, '')
remove_char(s, ch) == SelectSeq(s, LAMBDA c : c # ch)

\* str.startswith(prefix)
startswith(s, prefix) ==
    /\ Len(prefix) <= Len(s)
    /\ SubSeq(s, 1, Len(prefix)) = prefix

-----------------------------------------------------------------------------
(* utils/validators.py                                                     *)

MinNameLen == 2
MaxNameLen == 100
MinDatetimeLen == 5
MinTimezoneLen == 2
MinPhoneDigits == 10
MaxPhoneDigits == 15
MinTldLen == 2

Valid == [is_valid |-> TRUE, error |-> None]
Invalid(msg) == [is_valid |-> FALSE, error |-> <<msg>>]

EmailLocalChars == Letters \cup Digits \cup {".", "_", "%", "+", "-"}
EmailDomainChars == Letters \cup Digits \cup {".", "-"}

\* re.match(r'^[a-zA-Z0-9._%+-]+@[a-zA-Z0-9.-]+\.[a-zA-Z]{2,}$', s)
email_pattern_matches(s) ==
    \E at \in 1..Len(s) : \E dot \in 1..Len(s) :
        /\ s[at] = "@"
        /\ s[dot] = "."
        /\ at > 1
        /\ dot > at + 1
        /\ Len(s) - dot >= MinTldLen
        /\ \A i \in 1..(at - 1) : s[i] \in EmailLocalChars
        /\ \A i \in (at + 1)..(dot - 1) : s[i] \in EmailDomainChars
        /\ \A i \in (dot + 1)..Len(s) : s[i] \in Letters

\* re.match(r'^\+\d{10,15}$', s)
phone_pattern_matches(s) ==
    /\ Len(s) >= 1
    /\ s[1] = "+"
    /\ Len(s) - 1 >= MinPhoneDigits
    /\ Len(s) - 1 <= MaxPhoneDigits
    /\ \A i \in 2..Len(s) : s[i] \in Digits

validate_email(email0) ==
    LET email == strip(email0) IN
    IF email = <<>> THEN Invalid("Email cannot be empty")
    ELSE IF ~email_pattern_matches(email)
    THEN Invalid("Please provide a valid email address (e.g., name@example.com)")
    ELSE Valid

validate_phone(phone0) ==
    LET phone == strip(phone0)
        cleaned_phone == remove_char(remove_char(phone, " "), "-")
    IN
    IF phone = <<>> THEN Invalid("Phone number cannot be empty")
    ELSE IF ~startswith(cleaned_phone, <<"+">>)
    THEN Invalid("Phone number must include country code (e.g., +1234567890)")
    ELSE IF ~phone_pattern_matches(cleaned_phone)
    THEN Invalid("Please provide a valid phone number with country code (e.g., +911234567890)")
    ELSE Valid

validate_datetime(datetime_str0) ==
    LET datetime_str == strip(datetime_str0) IN
    IF datetime_str = <<>> THEN Invalid("Date and time cannot be empty")
    ELSE IF Len(datetime_str) < MinDatetimeLen
    THEN Invalid("Please provide more details about your preferred date and time")
    ELSE Valid

validate_timezone(timezone_str0) ==
    LET timezone_str == strip(timezone_str0) IN
    IF timezone_str = <<>> THEN Invalid("Timezone cannot be empty")
    ELSE IF Len(timezone_str) < MinTimezoneLen
    THEN Invalid("Please provide a valid timezone (e.g., IST, UTC+5:30, EST)")
    ELSE Valid

validate_name(name0) ==
    LET name == strip(name0) IN
    IF name = <<>> THEN Invalid("Name cannot be empty")
    ELSE IF Len(name) < MinNameLen THEN Invalid("Name must be at least 2 characters long")
    ELSE IF Len(name) > MaxNameLen THEN Invalid("Name is too long (maximum 100 characters)")
    ELSE Valid

-----------------------------------------------------------------------------
(* dict helpers                                                            *)

EmptyDict == [k \in {} |-> <<>>]

\* d[k] = v
DictSet(d, k, v) == (k :> v) @@ d

\* d.get(k), as a truth value: the key is present and its value is not empty
DictTruthy(d, k) == k \in DOMAIN d /\ d[k] # <<>> /\ d[k] # None

\* d.get(k, default)
DictGet(d, k, default) == IF k \in DOMAIN d THEN d[k] ELSE default

DictPop(d, k) == [x \in (DOMAIN d) \ {k} |-> d[x]]

-----------------------------------------------------------------------------
(* agent.py: ContactFormState                                              *)

IDLE == "idle"
INITIAL_COLLECTING_NAME == "initial_collecting_name"
INITIAL_COLLECTING_EMAIL == "initial_collecting_email"
INITIAL_COLLECTING_PHONE == "initial_collecting_phone"
ASKING_CONSENT == "asking_consent"
COLLECTING_DATETIME == "collecting_datetime"
COLLECTING_TIMEZONE == "collecting_timezone"
COLLECTING_NAME == "collecting_name"
COLLECTING_EMAIL == "collecting_email"
COLLECTING_PHONE == "collecting_phone"
COMPLETED == "completed"

ContactFormState ==
    {IDLE, INITIAL_COLLECTING_NAME, INITIAL_COLLECTING_EMAIL, INITIAL_COLLECTING_PHONE,
     ASKING_CONSENT, COLLECTING_DATETIME, COLLECTING_TIMEZONE, COLLECTING_NAME,
     COLLECTING_EMAIL, COLLECTING_PHONE, COMPLETED}

-----------------------------------------------------------------------------
(* database/mongodb_client.py                                              *)

\* What the Mongo server does with one create_contact_request call:
\* the insert and the read-back succeed, the insert raises, or the insert
\* succeeds and the read-back raises.
MongoOutcomes == {"ok", "insert_error", "verify_error"}

\* A create_contact_request that files the e-mail address as the mobile
\* number and the mobile number as the e-mail address
create_contact_request_mixing_fields(db, session_id, name, email, mobile, preferred_datetime, timezone, original_query, outcome) ==
    LET contact_request == [session_id |-> session_id,
                            name |-> name,
                            email |-> mobile,
                            mobile |-> email,
                            preferred_datetime |-> preferred_datetime,
                            timezone |-> timezone,
                            original_query |-> original_query,
                            status |-> "pending"]
    IN [db |-> IF outcome = "insert_error" THEN db ELSE Append(db, contact_request),
        request_id |-> None]

\* MongoDBClient.create_contact_request: the collection afterwards and the
\* returned id (None on any error).  created_at is not modelled.
create_contact_request(db, session_id, name, email, mobile, preferred_datetime, timezone, original_query, outcome) ==
    LET contact_request == [session_id |-> session_id,
                            name |-> name,
                            email |-> email,
                            mobile |-> mobile,
                            preferred_datetime |-> preferred_datetime,
                            timezone |-> timezone,
                            original_query |-> original_query,
                            status |-> "pending"]
    IN
    CASE outcome = "ok" ->
            [db |-> Append(db, contact_request), request_id |-> <<"id", Len(db) + 1>>]
      [] outcome = "verify_error" ->
            [db |-> Append(db, contact_request), request_id |-> None]
      [] OTHER ->
            [db |-> db, request_id |-> None]

-----------------------------------------------------------------------------
(* contact_form_handler.py                                                 *)

Affirmatives ==
    {<<"y","e","s">>, <<"y">>, <<"s","u","r","e">>, <<"o","k">>,
     <<"o","k","a","y">>, <<"y","e","a","h">>}

NotSpecified == <<"Not specified">>

StepResult(next_state, response, form_data, db) ==
    [next_state |-> next_state, response |-> response, form_data |-> form_data, db |-> db]

\* The Mongo collection after the completing step's "Save to MongoDB" block:
\* nothing is saved without a client, and a missing field raises KeyError
\* inside the try, before create_contact_request is called.
save_contact_request(form_data, session_id, client, db, outcome) ==
    IF ~client THEN db
    ELSE IF ~({"name", "email", "mobile", "preferred_datetime", "timezone"} \subseteq DOMAIN form_data)
    THEN db
    ELSE create_contact_request(db, session_id,
                                form_data["name"], form_data["email"], form_data["mobile"],
                                form_data["preferred_datetime"], form_data["timezone"],
                                DictGet(form_data, "original_query", NotSpecified),
                                outcome).db

\* A field-collecting branch that moves on whatever the validator says
collect_field_advancing_on_error(form_state, user_input, form_data, db, check, retry_prompt, field, next, prompt) ==
    IF ~check.is_valid
    THEN StepResult(next, check.error \o <<retry_prompt>>, form_data, db)
    ELSE StepResult(next, prompt, DictSet(form_data, field, user_input), db)

\* A field-collecting branch that stores an accepted value and asks for
\* the same field again
collect_field_staying_on_valid(form_state, user_input, form_data, db, check, retry_prompt, field, next, prompt) ==
    IF ~check.is_valid
    THEN StepResult(form_state, check.error \o <<retry_prompt>>, form_data, db)
    ELSE StepResult(form_state, prompt, DictSet(form_data, field, user_input), db)

\* A field-collecting branch that keeps only the value it has just stored
collect_field_forgetting_earlier(form_state, user_input, form_data, db, check, retry_prompt, field, next, prompt) ==
    IF ~check.is_valid
    THEN StepResult(form_state, check.error \o <<retry_prompt>>, form_data, db)
    ELSE StepResult(next, prompt, DictSet(EmptyDict, field, user_input), db)

\* One field-collecting branch: retry in place on a validation error,
\* otherwise store the stripped input under `field` and go to `next`.
collect_field(form_state, user_input, form_data, db, check, retry_prompt, field, next, prompt) ==
    IF ~check.is_valid
    THEN StepResult(form_state, check.error \o <<retry_prompt>>, form_data, db)
    ELSE StepResult(next, prompt, DictSet(form_data, field, user_input), db)

ThanksPrompt(user_input) == <<"Thanks, ">> \o user_input \o <<"! What's your email address?">>
MobilePrompt == <<"Perfect! What's your mobile number? Please include your country code.">>
DetailsDonePrompt == <<"Thank you! I now have your details. How can I assist you today?">>
ConsentYesPrompt == <<"Great! Let me collect a few details. What's your full name?">>
ConsentNoPrompt == <<"No problem! Is there anything else I can help you with?">>
DatetimePrompt == <<"Got it! When would you prefer us to contact you? You can specify in any format.">>
TimezonePrompt == <<"Great! What's your timezone? (e.g., IST, UTC+5:30, EST, PST, GMT)">>
AllSetPrompt == <<"All set! We've recorded your request and our team will contact you. Is there anything else I can help you with?">>
StartOverPrompt == <<"Something went wrong. Let's start over. How can I help you?">>

\* The completing branch returning the collected data instead of {}
timezone_step_keeping_data(form_state, user_input, form_data, session_id, client, db, outcome) ==
    LET check == validate_timezone(user_input) IN
    IF ~check.is_valid
    THEN StepResult(form_state, check.error \o <<" Please provide your timezone:">>,
                    form_data, db)
    ELSE StepResult(COMPLETED, AllSetPrompt, DictSet(form_data, "timezone", user_input),
                    save_contact_request(DictSet(form_data, "timezone", user_input),
                                         session_id, client, db, outcome))

\* A completing branch that starts over unless the request was filed
timezone_step_needing_save(form_state, user_input, form_data, session_id, client, db, outcome) ==
    LET check == validate_timezone(user_input)
        saved == save_contact_request(DictSet(form_data, "timezone", user_input),
                                      session_id, client, db, outcome)
    IN IF ~check.is_valid
       THEN StepResult(form_state, check.error \o <<" Please provide your timezone:">>,
                       form_data, db)
       ELSE IF saved = db
       THEN StepResult(IDLE, StartOverPrompt, EmptyDict, db)
       ELSE StepResult(COMPLETED, AllSetPrompt, EmptyDict, saved)

\* The "Collect timezone and complete" branch, on the stripped input
timezone_step(form_state, user_input, form_data, session_id, client, db, outcome) ==
    LET check == validate_timezone(user_input) IN
    IF ~check.is_valid
    THEN StepResult(form_state, check.error \o <<" Please provide your timezone:">>,
                    form_data, db)
    ELSE StepResult(COMPLETED, AllSetPrompt, EmptyDict,
                    save_contact_request(DictSet(form_data, "timezone", user_input),
                                         session_id, client, db, outcome))

\* The consent branch kept from resetting the form data on a refusal
consent_step_keeping_data(user_input, form_data, db) ==
    IF lower(user_input) \in Affirmatives
    THEN StepResult(COLLECTING_NAME, ConsentYesPrompt, form_data, db)
    ELSE StepResult(IDLE, ConsentNoPrompt, form_data, db)

\* The "Handle consent" branch, on the stripped input
consent_step(user_input, form_data, db) ==
    IF lower(user_input) \in Affirmatives
    THEN StepResult(COLLECTING_NAME, ConsentYesPrompt, form_data, db)
    ELSE StepResult(IDLE, ConsentNoPrompt, EmptyDict, db)

\* ContactFormHandler.handle_contact_form_step; `db` is the Mongo collection
\* before the call and `outcome` what the Mongo server does if it is called.
handle_contact_form_step(form_state, user_input0, form_data, session_id, client, db, outcome) ==
    LET user_input == strip(user_input0) IN
    CASE form_state = INITIAL_COLLECTING_NAME ->
            collect_field(form_state, user_input, form_data, db, validate_name(user_input),
                          " Please provide your full name:", "name",
                          INITIAL_COLLECTING_EMAIL, ThanksPrompt(user_input))
      [] form_state = INITIAL_COLLECTING_EMAIL ->
            collect_field(form_state, user_input, form_data, db, validate_email(user_input),
                          " Please provide a valid email address:", "email",
                          INITIAL_COLLECTING_PHONE, MobilePrompt)
      [] form_state = INITIAL_COLLECTING_PHONE ->
            collect_field(form_state, user_input, form_data, db, validate_phone(user_input),
                          " Please provide your mobile number:", "mobile",
                          IDLE, DetailsDonePrompt)
      [] form_state = ASKING_CONSENT -> consent_step(user_input, form_data, db)
      [] form_state = COLLECTING_NAME ->
            collect_field(form_state, user_input, form_data, db, validate_name(user_input),
                          " Please provide your full name:", "name",
                          COLLECTING_EMAIL, ThanksPrompt(user_input))
      [] form_state = COLLECTING_EMAIL ->
            collect_field(form_state, user_input, form_data, db, validate_email(user_input),
                          " Please provide a valid email address:", "email",
                          COLLECTING_PHONE, MobilePrompt)
      [] form_state = COLLECTING_PHONE ->
            collect_field(form_state, user_input, form_data, db, validate_phone(user_input),
                          " Please provide your mobile number:", "mobile",
                          COLLECTING_DATETIME, DatetimePrompt)
      [] form_state = COLLECTING_DATETIME ->
            collect_field(form_state, user_input, form_data, db, validate_datetime(user_input),
                          " Please provide your preferred date and time:", "preferred_datetime",
                          COLLECTING_TIMEZONE, TimezonePrompt)
      [] form_state = COLLECTING_TIMEZONE ->
            timezone_step(form_state, user_input, form_data, session_id, client, db, outcome)
      [] OTHER ->
            StepResult(IDLE, StartOverPrompt, EmptyDict, db)

-----------------------------------------------------------------------------
(* session_manager.py                                                      *)
(* The SessionManager object is a record of its fields.  `redis` is the   *)
(* key space of the Redis server the manager talks to: a function from    *)
(* the keys that exist to their values, and redis_reachable tells whether  *)
(* the server answers: while it does not, every command of redis_client   *)
(* raises and the method's except branch runs.  Timestamps are not        *)
(* modelled.                                                               *)

SessionIds == {"s1"}

\* f"session:{session_id}" and the keys built on it
SessionKey(session_id) == <<"session:", session_id>>
HistoryKey(session_id) == <<"session:", session_id, ":history">>
StateKey(session_id) == <<"session:", session_id, ":contact_form_state">>
DataKey(session_id) == <<"session:", session_id, ":contact_form_data">>

\* json.dumps / json.loads: the stored value is a JSON document, read back
\* by parsing it
json_dumps(x) == [json |-> x]
json_loads(doc) == doc.json

\* SessionManager.__init__: empty in-memory maps; redis_available is the
\* outcome of the connection test
SessionManagerInit(redis_available) ==
    [redis_available |-> redis_available,
     memory_sessions |-> EmptyDict,
     memory_contact_states |-> EmptyDict,
     memory_contact_data |-> EmptyDict,
     memory_history |-> EmptyDict,
     redis |-> EmptyDict,
     ttl |-> EmptyDict,
     redis_reachable |-> TRUE]

\* config.session_timeout, in the time steps of TimePasses
SessionTimeout == 2

\* redis_client.setex(key, config.session_timeout, value)
setex(sm, key, value) ==
    [sm EXCEPT !.redis = DictSet(@, key, value), !.ttl = DictSet(@, key, SessionTimeout)]

\* redis_client.rpush(key, item), then redis_client.expire(key,
\* config.session_timeout)
rpush_expire(sm, key, item) ==
    [sm EXCEPT !.redis = DictSet(@, key, Append(DictGet(@, key, <<>>), item)),
               !.ttl = DictSet(@, key, SessionTimeout)]

\* redis_client.delete(key)
delete(sm, key) ==
    [sm EXCEPT !.redis = DictPop(@, key), !.ttl = DictPop(@, key)]

\* One time step on the Redis server: the time to live of every key is a
\* step shorter, and a key whose time is up is gone.  The in-memory maps
\* of SessionManager hold no time and nothing removes their entries.
time_passes(sm) ==
    LET kept == {key \in DOMAIN sm.ttl : sm.ttl[key] > 1} IN
    [sm EXCEPT !.redis = [key \in DOMAIN @ \ (DOMAIN sm.ttl \ kept) |-> @[key]],
               !.ttl = [key \in kept |-> @[key] - 1]]

\* A command sent to redis_client raises
redis_raises(sm) == ~sm.redis_reachable

get_contact_form_state(sm, session_id) ==
    IF ~sm.redis_available
    THEN DictGet(sm.memory_contact_states, session_id, IDLE)
    ELSE IF redis_raises(sm) THEN IDLE
    ELSE LET state == DictGet(sm.redis, StateKey(session_id), <<>>) IN
         IF state # <<>> THEN state[1] ELSE IDLE

\* A set_contact_form_state that keeps one form state for the process:
\* the state is written for every session that has one
set_contact_form_state_of_all(sm, session_id, state) ==
    IF ~sm.redis_available
    THEN [sm EXCEPT !.memory_contact_states =
              [id \in DOMAIN @ \cup {session_id} |-> state]]
    ELSE IF redis_raises(sm) THEN sm
    ELSE [sm EXCEPT !.redis =
              [key \in DOMAIN @ \cup {StateKey(session_id)} |->
                  IF key = StateKey(session_id) \/ (Len(key) = 3 /\ key[3] = StateKey(session_id)[3])
                  THEN <<state>> ELSE @[key]],
                    !.ttl = DictSet(@, StateKey(session_id), SessionTimeout)]

set_contact_form_state(sm, session_id, state) ==
    IF ~sm.redis_available
    THEN [sm EXCEPT !.memory_contact_states = DictSet(@, session_id, state)]
    ELSE IF redis_raises(sm) THEN sm
    ELSE setex(sm, StateKey(session_id), <<state>>)

get_contact_form_data(sm, session_id) ==
    IF ~sm.redis_available
    THEN DictGet(sm.memory_contact_data, session_id, EmptyDict)
    ELSE IF redis_raises(sm) THEN EmptyDict
    ELSE IF DataKey(session_id) \in DOMAIN sm.redis
         THEN json_loads(sm.redis[DataKey(session_id)])
         ELSE EmptyDict

set_contact_form_data(sm, session_id, data) ==
    IF ~sm.redis_available
    THEN [sm EXCEPT !.memory_contact_data = DictSet(@, session_id, data)]
    ELSE IF redis_raises(sm) THEN sm
    ELSE setex(sm, DataKey(session_id), json_dumps(data))

\* A create_session that leaves the contact-form state unset
create_session_without_form_state(sm, session_id) ==
    LET session_data == [query_count |-> 0] IN
    IF ~sm.redis_available
    THEN [sm EXCEPT !.memory_sessions = DictSet(@, session_id, session_data),
                    !.memory_history = DictSet(@, session_id, <<>>)]
    ELSE setex(sm, SessionKey(session_id), json_dumps(session_data))

\* SessionManager.create_session, for the fresh uuid4 `session_id`
create_session(sm, session_id) ==
    LET session_data == [query_count |-> 0] IN
    IF ~sm.redis_available
    THEN [sm EXCEPT !.memory_sessions = DictSet(@, session_id, session_data),
                    !.memory_contact_states = DictSet(@, session_id, INITIAL_COLLECTING_NAME),
                    !.memory_history = DictSet(@, session_id, <<>>)]
    ELSE IF redis_raises(sm) THEN sm
    ELSE set_contact_form_state(
             setex(sm, SessionKey(session_id), json_dumps(session_data)),
             session_id, INITIAL_COLLECTING_NAME)

is_session_valid(sm, session_id) ==
    IF ~sm.redis_available
    THEN session_id \in DOMAIN sm.memory_sessions
    ELSE IF redis_raises(sm) THEN FALSE
    ELSE SessionKey(session_id) \in DOMAIN sm.redis

\* An update_session_activity that starts the count of a session it does
\* not know
update_session_activity_of_anyone(sm, session_id) ==
    IF ~sm.redis_available
    THEN [sm |-> [sm EXCEPT !.memory_sessions =
                      DictSet(@, session_id,
                              [query_count |-> DictGet(@, session_id, [query_count |-> 0]).query_count + 1])],
          ok |-> TRUE]
    ELSE IF redis_raises(sm) THEN [sm |-> sm, ok |-> FALSE]
    ELSE [sm |-> setex(sm, SessionKey(session_id),
                       json_dumps([query_count |->
                           json_loads(DictGet(sm.redis, SessionKey(session_id),
                                              json_dumps([query_count |-> 0]))).query_count + 1])),
          ok |-> TRUE]

\* SessionManager.update_session_activity: the manager afterwards and the
\* returned flag
update_session_activity(sm, session_id) ==
    IF ~sm.redis_available
    THEN IF session_id \in DOMAIN sm.memory_sessions
         THEN [sm |-> [sm EXCEPT !.memory_sessions[session_id].query_count = @ + 1],
               ok |-> TRUE]
         ELSE [sm |-> sm, ok |-> FALSE]
    ELSE IF redis_raises(sm) \/ SessionKey(session_id) \notin DOMAIN sm.redis
         THEN [sm |-> sm, ok |-> FALSE]
         ELSE LET session_data == json_loads(sm.redis[SessionKey(session_id)])
                  updated == [session_data EXCEPT !.query_count = @ + 1]
              IN [sm |-> setex(sm, SessionKey(session_id), json_dumps(updated)),
                  ok |-> TRUE]

HistoryEntry(role, message) == [role |-> role, message |-> message]

\* An append_message_to_history that records the user's messages only
append_message_to_history_of_user(sm, session_id, role, message) ==
    IF role # "user" THEN sm
    ELSE IF ~sm.redis_available
    THEN [sm EXCEPT !.memory_history =
              DictSet(@, session_id,
                      Append(DictGet(@, session_id, <<>>), HistoryEntry(role, message)))]
    ELSE IF redis_raises(sm) THEN sm
    ELSE rpush_expire(sm, HistoryKey(session_id), json_dumps(HistoryEntry(role, message)))

\* SessionManager.append_message_to_history
append_message_to_history(sm, session_id, role, message) ==
    IF ~sm.redis_available
    THEN [sm EXCEPT !.memory_history =
              DictSet(@, session_id,
                      Append(DictGet(@, session_id, <<>>), HistoryEntry(role, message)))]
    ELSE IF redis_raises(sm) THEN sm
    ELSE rpush_expire(sm, HistoryKey(session_id), json_dumps(HistoryEntry(role, message)))

\* history[:limit], the oldest entries instead of the newest
FirstN(history, limit) ==
    IF Len(history) <= limit THEN history ELSE SubSeq(history, 1, limit)

\* history[-limit:]
LastN(history, limit) ==
    IF Len(history) <= limit THEN history
    ELSE SubSeq(history, Len(history) - limit + 1, Len(history))

NoLimit == 0

\* SessionManager.get_session_history; limit = NoLimit stands for None
get_session_history(sm, session_id, limit) ==
    LET history ==
            IF ~sm.redis_available
            THEN DictGet(sm.memory_history, session_id, <<>>)
            ELSE IF redis_raises(sm) THEN <<>>
            ELSE LET items == DictGet(sm.redis, HistoryKey(session_id), <<>>) IN
                 [i \in 1..Len(items) |-> json_loads(items[i])]
    IN IF limit > 0 THEN LastN(history, limit) ELSE history

LastUserQueryLimit == 20

\* The loop of get_last_user_query over reversed(history): the newest
\* user entry is passed over when skip_current is set (count = 0), and the
\* newest of the user entries left is returned, None if there is none
scan_last_user_query(history, skip_current) ==
    LET users == {i \in DOMAIN history : history[i].role = "user"}
        seen == IF skip_current
                THEN {i \in users : \E j \in users : j > i}
                ELSE users
    IN IF seen = {} THEN None
       ELSE history[CHOOSE i \in seen : \A j \in seen : j <= i].message

get_last_user_query(sm, session_id, skip_current) ==
    scan_last_user_query(get_session_history(sm, session_id, LastUserQueryLimit),
                         skip_current)

\* SessionManager.clear_session
clear_session(sm, session_id) ==
    IF ~sm.redis_available
    THEN [sm EXCEPT !.memory_sessions = DictPop(@, session_id),
                    !.memory_contact_states = DictPop(@, session_id),
                    !.memory_contact_data = DictPop(@, session_id),
                    !.memory_history = DictPop(@, session_id)]
    ELSE IF redis_raises(sm) THEN sm
    ELSE delete(sm, SessionKey(session_id))

\* SessionManager.get_session_info, the Optional[Dict] it returns as a
\* set: {} for None, {session_data} otherwise.  redis_client is None in a
\* manager constructed without Redis, and the AttributeError is caught.
get_session_info(sm, session_id) ==
    IF ~sm.redis_available \/ redis_raises(sm) THEN {}
    ELSE IF SessionKey(session_id) \notin DOMAIN sm.redis THEN {}
    ELSE {json_loads(sm.redis[SessionKey(session_id)])}

\* SessionManager.clear_contact_form: the manager afterwards and the
\* returned flag; redis_client is None in a manager constructed without
\* Redis
clear_contact_form(sm, session_id) ==
    IF ~sm.redis_available \/ redis_raises(sm)
    THEN [sm |-> sm, ok |-> FALSE]
    ELSE [sm |-> delete(delete(sm, StateKey(session_id)), DataKey(session_id)),
          ok |-> TRUE]

\* What the methods returning only a success flag return: True from the
\* in-memory branch, and from the Redis branch unless a command raised
returns_true(sm) == ~sm.redis_available \/ ~redis_raises(sm)

-----------------------------------------------------------------------------
(* agent.py: text helpers                                                  *)

upper_char(c) ==
    IF c \in Range(LowerLetters)
    THEN UpperLetters[CHOOSE i \in DOMAIN LowerLetters : LowerLetters[i] = c]
    ELSE c

\* str.upper()
upper(s) == [i \in 1..Len(s) |-> upper_char(s[i])]

\* sub in s, for character sequences
Contains(s, sub) ==
    \E i \in 1..(Len(s) - Len(sub) + 1) : SubSeq(s, i, i + Len(sub) - 1) = sub

\* bool(x) of an Optional[str]
Truthy(x) == x # None /\ x # <<>>

-----------------------------------------------------------------------------
(* agent.py: IntentType and classify_intent                                *)

GREETING == "greeting"
CASUAL_CHAT == "casual_chat"
FOLLOWUP == "followup"
CONTACT_REQUEST == "contact_request"
QUERY == "query"
GOODBYE == "goodbye"
UNCLEAR == "unclear"

IntentType == {GREETING, CASUAL_CHAT, FOLLOWUP, CONTACT_REQUEST, QUERY, GOODBYE, UNCLEAR}

ContactRequestPhrases ==
    {<<"c","o","n","n","e","c","t"," ","m","e">>,
     <<"c","o","n","t","a","c","t"," ","m","e">>,
     <<"r","e","a","c","h"," ","o","u","t">>,
     <<"g","e","t"," ","i","n"," ","t","o","u","c","h">>,
     <<"c","a","l","l"," ","m","e">>,
     <<"e","m","a","i","l"," ","m","e">>,
     <<"h","a","v","e"," ","s","o","m","e","o","n","e"," ","c","o","n","t","a","c","t">>,
     <<"s","o","m","e","o","n","e"," ","r","e","a","c","h"," ","o","u","t">>,
     <<"t","a","l","k"," ","t","o"," ","s","o","m","e","o","n","e">>,
     <<"s","p","e","a","k"," ","t","o"," ","s","o","m","e","o","n","e">>,
     <<"c","o","n","n","e","c","t"," ","w","i","t","h">>}

GreetingWords ==
    {<<"h","i">>,
     <<"h","e","l","l","o">>,
     <<"h","e","y">>}

GoodbyePhrases ==
    {<<"b","y","e">>,
     <<"g","o","o","d","b","y","e">>,
     <<"g","o","o","d"," ","b","y","e">>,
     <<"s","e","e"," ","y","o","u">>,
     <<"t","h","a","n","k","s">>,
     <<"t","h","a","n","k"," ","y","o","u">>,
     <<"o","k"," ","t","h","a","n","k"," ","y","o","u">>,
     <<"o","k","a","y"," ","t","h","a","n","k"," ","y","o","u">>,
     <<"t","h","a","t","'","s"," ","a","l","l">>,
     <<"t","h","a","t","s"," ","a","l","l">>,
     <<"e","n","d">>,
     <<"q","u","i","t">>,
     <<"e","x","i","t">>,
     <<"d","o","n","e">>,
     <<"f","i","n","i","s","h","e","d">>,
     <<"a","l","l"," ","g","o","o","d">>,
     <<"a","p","p","r","e","c","i","a","t","e"," ","i","t">>,
     <<"p","e","r","f","e","c","t">>,
     <<"g","r","e","a","t"," ","t","h","a","n","k","s">>,
     <<"a","w","e","s","o","m","e"," ","t","h","a","n","k","s">>}

\* A mapping that tests QUERY before the other category names
map_intent_text_query_first(intent_text) ==
    IF Contains(intent_text, <<"Q","U","E","R","Y">>) THEN QUERY
    ELSE IF Contains(intent_text, <<"G","R","E","E","T","I","N","G">>) THEN GREETING
    ELSE IF Contains(intent_text, <<"C","A","S","U","A","L">>) THEN CASUAL_CHAT
    ELSE IF Contains(intent_text, <<"F","O","L","L","O","W","U","P">>) THEN FOLLOWUP
    ELSE IF Contains(intent_text, <<"C","O","N","T","A","C","T">>) THEN CONTACT_REQUEST
    ELSE IF Contains(intent_text, <<"G","O","O","D","B","Y","E">>) THEN GOODBYE
    ELSE UNCLEAR

\* The mapping of the model's answer to a label (first match wins)
map_intent_text(intent_text) ==
    IF Contains(intent_text, <<"G","R","E","E","T","I","N","G">>) THEN GREETING
    ELSE IF Contains(intent_text, <<"C","A","S","U","A","L">>) THEN CASUAL_CHAT
    ELSE IF Contains(intent_text, <<"F","O","L","L","O","W","U","P">>) THEN FOLLOWUP
    ELSE IF Contains(intent_text, <<"C","O","N","T","A","C","T">>) THEN CONTACT_REQUEST
    ELSE IF Contains(intent_text, <<"Q","U","E","R","Y">>) THEN QUERY
    ELSE IF Contains(intent_text, <<"G","O","O","D","B","Y","E">>) THEN GOODBYE
    ELSE UNCLEAR

\* A heuristic that looks for greeting words before contact phrases
fallback_intent_greeting_first(user_input) ==
    LET user_input_lower == strip(lower(user_input)) IN
    IF \E word \in GreetingWords : Contains(user_input_lower, word)
    THEN GREETING
    ELSE IF \E phrase \in ContactRequestPhrases : Contains(user_input_lower, phrase)
    THEN CONTACT_REQUEST
    ELSE IF \E phrase \in GoodbyePhrases : Contains(user_input_lower, phrase)
    THEN GOODBYE
    ELSE QUERY

\* The keyword heuristic of the except branch
fallback_intent(user_input) ==
    LET user_input_lower == strip(lower(user_input)) IN
    IF \E phrase \in ContactRequestPhrases : Contains(user_input_lower, phrase)
    THEN CONTACT_REQUEST
    ELSE IF \E word \in GreetingWords : Contains(user_input_lower, word)
    THEN GREETING
    ELSE IF \E phrase \in GoodbyePhrases : Contains(user_input_lower, phrase)
    THEN GOODBYE
    ELSE QUERY

\* ChatbotAgent.classify_intent; llm is what self.llm.invoke does with the
\* classification prompt: [raises, content]
classify_intent(user_input, llm) ==
    IF llm.raises THEN fallback_intent(user_input)
    ELSE map_intent_text(upper(strip(llm.content)))

-----------------------------------------------------------------------------
(* agent.py: the fixed texts, and the sample texts of the generation model *)

SentinelTok == "TRIGGER_CONTACT_FORM"
TRIGGER_CONTACT_FORM == <<SentinelTok>>

GreetingFallback == <<"Hello! I'm Alicia from TechGropse, and I'm here to help you with any questions about our privacy policy. What would you like to know?">>
CasualFallback == <<"That's great! Is there anything I can help you with today?">>
GoodbyeFallback == <<"Thank you for your questions! If you need any more information, feel free to ask anytime. Have a great day!">>
UnclearFallback == <<"I'm not quite sure what you're asking about. Could you rephrase your question? ...">>
NoInfoGuidance == <<"I don't have specific information about that topic in our documents. For detailed information, please contact us directly at sales@techgropse.com. ...">>
TechnicalApology == <<"I sincerely apologize, but I'm experiencing some technical difficulties at the moment ... I really appreciate your patience and understanding!">>
GenerationErrorApology == <<"I apologize, but I'm having trouble processing your request right now. ...">>
FollowupNoInfo == <<"I don't have additional information on that topic in our privacy policy. ...">>
FollowupLlmError == <<"I'd be happy to provide more information. For specific details, please contact us at sales@techgropse.com.">>
FollowupShortFallback == <<"We'd be happy to provide more information. For specific details about our privacy practices, ...">>
FollowupErrorApology == <<"We apologize, but I'm having trouble retrieving more details right now. ...">>
ProcessErrorApology == <<"We're sorry, I encountered an error processing your request. Please try again or contact us for support.">>
ElaborateSuffix == <<" - provide more detailed information and additional context">>

EngagementPrompts ==
    <<"\n\nIs there anything else you'd like to know about this topic, or do you have other privacy questions?",
      "\n\nWould you like more information on this, or do you have any other questions about our privacy practices?",
      "\n\nDo you need more details about this, or is there something else regarding our privacy policy you'd like to know?",
      "\n\nIs there anything else about this topic you'd like me to clarify, or do you have other privacy-related questions?">>

FollowupEngagementPrompts ==
    <<"\n\nDoes this answer your question completely, or would you like even more details about any specific aspect?",
      "\n\nIs this the level of detail you were looking for, or would you like me to elaborate on any particular point?",
      "\n\nDoes this cover what you wanted to know, or do you have follow-up questions about any of these points?",
      "\n\nI hope this gives you the detail you were looking for! Is there anything specific you'd like me to expand on further?">>

CompleteFallbackPhrases ==
    {"i don't have specific information", "that's outside what i have",
     "not in our current documents", "don't have that exact information",
     "outside what i have in our privacy", "that's not covered in our privacy"}

PartialInfoPhrases ==
    {"i don't have the complete details", "i don't have all the specifics",
     "here's what i can tell you", "what i can share is",
     "while i don't have the exact", "i don't have that specific detail, but"}

GreetingPhrases ==
    {"Hi there!", "Hello!", "Hey!", "Hi!", "Hey there!", "Good morning!",
     "Good afternoon!", "Good evening!", "Greetings!", "Hello there!"}

\* Sample replies of the generation model.  The chunks the code looks for
\* (after lower-casing the reply) are tokens of their own.
T_AnswerTok == "We collect your name, email address and phone number so that our team can provide the services you ask for, and we never sell this data."
T_BriefTok == "We use cookies for analytics."
T_ShortTok == "Sure."
NoInfoPhraseTok == "i don't have specific information"
NoInfoTailTok == " about that topic in our documents right now."
PartialPhraseTok == "here's what i can tell you"
PartialTailTok == ": we build mobile apps."
HiThereTok == "Hi there!"
T_Answer == <<T_AnswerTok>>
T_Brief == <<T_BriefTok>>
T_Short == <<T_ShortTok>>
T_NoInfo == <<NoInfoPhraseTok, NoInfoTailTok>>
T_Partial == <<NoInfoPhraseTok, ", but ", PartialPhraseTok, PartialTailTok>>
T_Greeted == <<HiThereTok, " ", T_BriefTok>>
T_Sentinel == <<SentinelTok>>

\* len() of the literal chunks; any other token used in a measured text is
\* one character
LiteralLen ==
    T_AnswerTok :> 136
    @@ T_BriefTok :> 29
    @@ T_ShortTok :> 5
    @@ NoInfoPhraseTok :> 33
    @@ NoInfoTailTok :> 45
    @@ PartialPhraseTok :> 26
    @@ PartialTailTok :> 23
    @@ HiThereTok :> 9
    @@ SentinelTok :> 20
    @@ ", but " :> 6
    @@ TechnicalApology[1] :> 426

TokenLen(tok) == IF tok \in DOMAIN LiteralLen THEN LiteralLen[tok] ELSE 1

RECURSIVE TextLen(_)
TextLen(text) == IF text = <<>> THEN 0 ELSE TokenLen(Head(text)) + TextLen(Tail(text))

-----------------------------------------------------------------------------
(* agent.py: retrieval                                                     *)
(* A retrieved passage is [content, source, distance, rerank_score]:      *)
(* distance in tenths (15 is 1.5), rerank_score the score the             *)
(* cross-encoder gives the passage when it is asked.                       *)

DistanceThreshold == 15
RerankTopK == 5
RerankCandidates == 15
DefaultNResults == 10
FollowupNResults == 6
MaxPerSource == 3
MaxDiversified == 10

Take(s, n) == IF Len(s) <= n THEN s ELSE SubSeq(s, 1, n)

RECURSIVE Flatten(_)
Flatten(ss) == IF ss = <<>> THEN <<>> ELSE Head(ss) \o Flatten(Tail(ss))

\* sorted(docs, key=rerank_score, reverse=True): stable, insertion by score
RECURSIVE insert_by_score(_, _)
insert_by_score(sorted, doc) ==
    IF sorted = <<>> THEN <<doc>>
    ELSE IF Head(sorted).rerank_score < doc.rerank_score
         THEN <<doc>> \o sorted
         ELSE <<Head(sorted)>> \o insert_by_score(Tail(sorted), doc)

RECURSIVE sort_by_score(_)
sort_by_score(docs) ==
    IF docs = <<>> THEN <<>>
    ELSE insert_by_score(sort_by_score(SubSeq(docs, 1, Len(docs) - 1)), docs[Len(docs)])

\* A rerank that gives up when the model fails
rerank_empty_on_error(documents, top_k, reranker) ==
    IF documents = <<>> THEN <<>>
    ELSE IF reranker = "raises" THEN <<>>
    ELSE Take(sort_by_score(documents), top_k)

\* Whether rerank gets as far as self.model.predict
model_called(documents) == documents # <<>>

\* Reranker.rerank; reranker is "ok" or "raises" (model.predict fails)
rerank(documents, top_k, reranker) ==
    IF documents = <<>> THEN <<>>
    ELSE IF reranker = "raises" THEN Take(documents, top_k)
    ELSE Take(sort_by_score(documents), top_k)

\* The keys of source_groups, in insertion order
RECURSIVE source_order(_, _)
source_order(results, seen) ==
    IF results = <<>> THEN seen
    ELSE source_order(Tail(results),
                      IF Head(results).source \in Range(seen) THEN seen
                      ELSE Append(seen, Head(results).source))

\* One round of the interleaving loop: the round_idx-th passage of every
\* source that has one, sources in insertion order
diversify_round(results, order, round_idx) ==
    Flatten([i \in 1..Len(order) |->
                LET source_results == SelectSeq(results, LAMBDA d : d.source = order[i]) IN
                IF round_idx <= Len(source_results) THEN <<source_results[round_idx]>>
                ELSE <<>>])

\* A _diversify_by_source that takes the passages source after source
diversify_by_source_grouped(results, max_per_source) ==
    LET order == source_order(results, <<>>) IN
    Take(Flatten([i \in 1..Len(order) |->
                     Take(SelectSeq(results, LAMBDA d : d.source = order[i]),
                          max_per_source)]),
         MaxDiversified)

\* ChatbotAgent._diversify_by_source
diversify_by_source(results, max_per_source) ==
    LET order == source_order(results, <<>>) IN
    Take(Flatten([round_idx \in 1..max_per_source |->
                     diversify_round(results, order, round_idx)]),
         MaxDiversified)

\* A retrieve_relevant_documents that also keeps a passage at the threshold
retrieve_relevant_documents_at_threshold(n_results, retrieval, reranker) ==
    IF retrieval.raises THEN <<>>
    ELSE LET initial_n_results == IF reranker # "none" THEN RerankCandidates ELSE n_results
             results == Take(retrieval.results, initial_n_results)
             filtered_results == SelectSeq(results, LAMBDA r : r.distance <= DistanceThreshold)
         IN IF reranker # "none" /\ filtered_results # <<>>
            THEN diversify_by_source(rerank(filtered_results, RerankTopK, reranker), MaxPerSource)
            ELSE diversify_by_source(filtered_results, MaxPerSource)

\* ChatbotAgent.retrieve_relevant_documents.  retrieval is what the vector
\* store does: [raises, results]; reranker is "none" (no re-ranker, or
\* re-ranking disabled), "ok" or "raises".
retrieve_relevant_documents(n_results, retrieval, reranker) ==
    IF retrieval.raises THEN <<>>
    ELSE LET initial_n_results == IF reranker # "none" THEN RerankCandidates ELSE n_results
             results == Take(retrieval.results, initial_n_results)
             filtered_results == SelectSeq(results, LAMBDA r : r.distance < DistanceThreshold)
         IN IF reranker # "none" /\ filtered_results # <<>>
            THEN diversify_by_source(rerank(filtered_results, RerankTopK, reranker), MaxPerSource)
            ELSE diversify_by_source(filtered_results, MaxPerSource)

\* A should_trigger_contact_form that never asks for the form
never_trigger_contact_form(context_docs, distance_threshold) == FALSE

\* ContactFormHandler.should_trigger_contact_form
should_trigger_contact_form(context_docs, distance_threshold) ==
    IF context_docs = <<>> THEN TRUE
    ELSE Cardinality({i \in DOMAIN context_docs :
                         context_docs[i].distance < distance_threshold}) = 0

-----------------------------------------------------------------------------
(* agent.py: generation                                                    *)
(* llm is what self.llm does with one prompt: [raises, content].          *)

MinResponseLen == 20
EngagementMinLen == 100

\* The handlers of the intents that need no retrieval
handle_greeting(llm) == IF llm.raises THEN GreetingFallback ELSE strip(llm.content)
handle_casual_chat(llm) == IF llm.raises THEN CasualFallback ELSE strip(llm.content)
handle_goodbye(llm) == IF llm.raises THEN GoodbyeFallback ELSE strip(llm.content)
handle_unclear(llm) == IF llm.raises THEN UnclearFallback ELSE strip(llm.content)

\* Whether the joined context_text is non-empty
has_context_text(context_docs) ==
    \E i \in DOMAIN context_docs : strip(context_docs[i].content) # <<>>

\* "Remove greeting phrases that might have slipped through"
strip_leading_greeting(response_text) ==
    IF response_text # <<>> /\ Head(response_text) \in GreetingPhrases
    THEN strip(Tail(response_text))
    ELSE response_text

\* ChatbotAgent.generate_response_from_context; engagement is the index
\* random.choice draws
generate_response_from_context(context_docs, llm, engagement) ==
    IF ~has_context_text(context_docs)
    THEN IF should_trigger_contact_form(context_docs, DistanceThreshold)
         THEN TRIGGER_CONTACT_FORM
         ELSE NoInfoGuidance
    ELSE LET response_text == IF llm.raises THEN <<>> ELSE strip(llm.content)
             is_complete_fallback == \E t \in Range(response_text) : t \in CompleteFallbackPhrases
             has_partial_info == \E t \in Range(response_text) : t \in PartialInfoPhrases
             cleaned == strip_leading_greeting(response_text)
             reasonable == IF cleaned = <<>> \/ TextLen(cleaned) < MinResponseLen
                           THEN TechnicalApology ELSE cleaned
         IN IF response_text # <<>> /\ is_complete_fallback /\ ~has_partial_info
            THEN TRIGGER_CONTACT_FORM
            ELSE IF TextLen(reasonable) > EngagementMinLen
                 THEN Append(reasonable, EngagementPrompts[engagement])
                 ELSE reasonable

\* ChatbotAgent._generate_followup_response
generate_followup_response(context_docs, llm, engagement) ==
    IF ~has_context_text(context_docs) THEN FollowupNoInfo
    ELSE IF llm.raises THEN FollowupLlmError
    ELSE LET response_text == strip_leading_greeting(strip(llm.content))
             reasonable == IF response_text = <<>> \/ TextLen(response_text) < MinResponseLen
                           THEN FollowupShortFallback ELSE response_text
         IN IF TextLen(reasonable) > EngagementMinLen
            THEN Append(reasonable, FollowupEngagementPrompts[engagement])
            ELSE reasonable

\* The query a follow-up turn retrieves on (process_user_input, the
\* FOLLOWUP branch)
expanded_query(user_input, last_user_query) ==
    IF Truthy(last_user_query) /\ strip(lower(last_user_query)) = strip(lower(user_input))
    THEN user_input
    ELSE IF Truthy(last_user_query)
    THEN last_user_query \o ElaborateSuffix
    ELSE user_input

\* ChatbotAgent.process_user_input.  env is what the collaborators do
\* during the turn: classifier and llm ([raises, content]), retrieval
\* ([raises, results]), reranker, engagement.  retrieved_on is the query
\* text handed to retrieve_relevant_documents, None when it is not called.
process_user_input(user_input, last_user_query, env) ==
    LET intent == classify_intent(user_input, env.classifier)
        Result(response, context_docs, needs_caching, retrieved_on) ==
            [intent |-> intent, response |-> response,
             context_docs |-> context_docs, needs_caching |-> needs_caching,
             retrieved_on |-> retrieved_on]
    IN
    CASE intent = GREETING -> Result(handle_greeting(env.llm), <<>>, FALSE, None)
      [] intent = CASUAL_CHAT -> Result(handle_casual_chat(env.llm), <<>>, FALSE, None)
      [] intent = GOODBYE -> Result(handle_goodbye(env.llm), <<>>, FALSE, None)
      [] intent = QUERY ->
            LET context_docs == retrieve_relevant_documents(DefaultNResults, env.retrieval,
                                                            env.reranker)
            IN Result(generate_response_from_context(context_docs, env.llm, env.engagement),
                      context_docs, TRUE, user_input)
      [] intent = FOLLOWUP ->
            LET context_docs == retrieve_relevant_documents(FollowupNResults, env.retrieval,
                                                            env.reranker)
            IN Result(generate_followup_response(context_docs, env.llm, env.engagement),
                      context_docs, TRUE, expanded_query(user_input, last_user_query))
      [] OTHER -> Result(handle_unclear(env.llm), <<>>, FALSE, None)

-----------------------------------------------------------------------------
(* chatbot.py                                                              *)

WelcomeMessage == <<"Hello! Welcome to TechGropse. Before we begin, I'd like to know you better. What's your name?">>
ExplicitRequestPrompt == <<"Sure! I'd be happy to connect you with our team. Let me collect a few details so they can reach out to you.\n\nWhat's your name?">>
AvailabilityPrompt == <<"Great! I'll connect you with our team. When would be the best time for them to reach out to you? Please provide your preferred date and time.">>
MessageErrorApology == <<"I'm sorry, I encountered an error processing your request. Please try again.">>

\* ContactFormHandler.ask_for_contact_consent
ask_for_contact_consent(original_query, is_explicit_request) ==
    IF is_explicit_request THEN ExplicitRequestPrompt
    ELSE <<"I don't have specific information about that in our current documents. However, I'd be happy to connect you with our team who can provide detailed assistance with your question about: \"">>
         \o original_query
         \o <<"\"\n\nWould you like us to contact you? Just reply with 'yes' or 'no'.">>

\* What one call of process_message returns and leaves behind: the
\* session manager and the Mongo collection afterwards, the response, and
\* what the call did on the way: the form state it read, the component it
\* routed the input to ("contact_form" or "agent"), the handler's result
\* on the first route, the agent's result on the second.
TurnResult(sm, db, response, form_state, route, step, agent) ==
    [sm |-> sm, db |-> db, response |-> response, form_state |-> form_state,
     route |-> route, step |-> step, agent |-> agent]

NoStep == [next_state |-> "", form_data |-> EmptyDict]
NoAgent ==
    [intent |-> "", response |-> <<>>, context_docs |-> <<>>, needs_caching |-> FALSE,
     retrieved_on |-> None]

\* The form branch without the write-back of the handler's form data
contact_form_turn_without_write_back(sm, db, client, user_input, session_id, form_state, outcome) ==
    LET form_data == get_contact_form_data(sm, session_id)
        result == handle_contact_form_step(form_state, user_input, form_data, session_id,
                                           client, db, outcome)
        sm1 == set_contact_form_state(sm, session_id, result.next_state)
        sm3 == append_message_to_history(sm1, session_id, "bot", result.response)
    IN TurnResult(sm3, result.db, result.response, form_state, "contact_form",
                  [next_state |-> result.next_state, form_data |-> result.form_data],
                  NoAgent)

\* The branch of process_message for a form state other than idle
contact_form_turn(sm, db, client, user_input, session_id, form_state, outcome) ==
    LET form_data == get_contact_form_data(sm, session_id)
        result == handle_contact_form_step(form_state, user_input, form_data, session_id,
                                           client, db, outcome)
        sm1 == set_contact_form_state(sm, session_id, result.next_state)
        sm2 == set_contact_form_data(sm1, session_id, result.form_data)
        sm3 == append_message_to_history(sm2, session_id, "bot", result.response)
    IN TurnResult(sm3, result.db, result.response, form_state, "contact_form",
                  [next_state |-> result.next_state, form_data |-> result.form_data],
                  NoAgent)

\* The idle branch with an explicit contact request always starting the
\* collection from the name, whatever the session already holds
agent_turn_ignoring_details(sm, db, user_input, session_id, env) ==
    LET last_user == get_last_user_query(sm, session_id, TRUE)
        result == process_user_input(user_input, last_user, env)
        Done(sm1, response) ==
            TurnResult(append_message_to_history(sm1, session_id, "bot", response), db,
                       response, IDLE, "agent", NoStep, result)
    IN
    IF result.intent = CONTACT_REQUEST
    THEN Done(set_contact_form_state(
                  set_contact_form_data(sm, session_id,
                                        DictSet(EmptyDict, "original_query", user_input)),
                  session_id, COLLECTING_NAME),
              ask_for_contact_consent(user_input, TRUE))
    ELSE IF result.response = TRIGGER_CONTACT_FORM
    THEN Done(set_contact_form_state(
                  set_contact_form_data(sm, session_id,
                                        DictSet(EmptyDict, "original_query", user_input)),
                  session_id, ASKING_CONSENT),
              ask_for_contact_consent(user_input, FALSE))
    ELSE Done(sm, result.response)

\* The idle branch without the check for the sentinel: the agent's
\* response is returned as it is
agent_turn_passing_sentinel(sm, db, user_input, session_id, env) ==
    LET last_user == get_last_user_query(sm, session_id, TRUE)
        result == process_user_input(user_input, last_user, env)
        user_details == get_contact_form_data(sm, session_id)
        Done(sm1, response) ==
            TurnResult(append_message_to_history(sm1, session_id, "bot", response), db,
                       response, IDLE, "agent", NoStep, result)
    IN
    IF result.intent = CONTACT_REQUEST
    THEN IF DictTruthy(user_details, "name") /\ DictTruthy(user_details, "email")
            /\ DictTruthy(user_details, "mobile")
         THEN Done(set_contact_form_state(
                       set_contact_form_data(sm, session_id,
                                             DictSet(user_details, "original_query", user_input)),
                       session_id, COLLECTING_DATETIME),
                   AvailabilityPrompt)
         ELSE Done(set_contact_form_state(
                       set_contact_form_data(sm, session_id,
                                             DictSet(EmptyDict, "original_query", user_input)),
                       session_id, COLLECTING_NAME),
                   ask_for_contact_consent(user_input, TRUE))
    ELSE Done(sm, result.response)

\* The branch of process_message for the idle form state
agent_turn(sm, db, user_input, session_id, env) ==
    LET last_user == get_last_user_query(sm, session_id, TRUE)
        result == process_user_input(user_input, last_user, env)
        user_details == get_contact_form_data(sm, session_id)
        Done(sm1, response) ==
            TurnResult(append_message_to_history(sm1, session_id, "bot", response), db,
                       response, IDLE, "agent", NoStep, result)
    IN
    IF result.intent = CONTACT_REQUEST
    THEN IF DictTruthy(user_details, "name") /\ DictTruthy(user_details, "email")
            /\ DictTruthy(user_details, "mobile")
         THEN Done(set_contact_form_state(
                       set_contact_form_data(sm, session_id,
                                             DictSet(user_details, "original_query", user_input)),
                       session_id, COLLECTING_DATETIME),
                   AvailabilityPrompt)
         ELSE Done(set_contact_form_state(
                       set_contact_form_data(sm, session_id,
                                             DictSet(EmptyDict, "original_query", user_input)),
                       session_id, COLLECTING_NAME),
                   ask_for_contact_consent(user_input, TRUE))
    ELSE IF result.response = TRIGGER_CONTACT_FORM
    THEN Done(set_contact_form_state(
                  set_contact_form_data(sm, session_id,
                                        DictSet(EmptyDict, "original_query", user_input)),
                  session_id, ASKING_CONSENT),
              ask_for_contact_consent(user_input, FALSE))
    ELSE Done(sm, result.response)

\* Lines 129-150 of process_message, for the form state and the form
\* data the call read at lines 123 and 127, on the store as it is when
\* the call gets there
contact_form_write_back(sm, db, client, user_input, session_id, form_state, form_data, outcome) ==
    LET result == handle_contact_form_step(form_state, user_input, form_data, session_id,
                                           client, db, outcome)
        sm1 == set_contact_form_state(sm, session_id, result.next_state)
        sm2 == set_contact_form_data(sm1, session_id, result.form_data)
        sm3 == append_message_to_history(sm2, session_id, "bot", result.response)
    IN TurnResult(sm3, result.db, result.response, form_state, "contact_form",
                  [next_state |-> result.next_state, form_data |-> result.form_data],
                  NoAgent)

\* Lines 113-127 of process_message: the store once the call has counted
\* the turn and appended the user's message, and the form state and form
\* data it has read
process_message_begin(sm, user_input, session_id) ==
    LET sm1 == update_session_activity(sm, session_id).sm
        sm2 == append_message_to_history(sm1, session_id, "user", user_input)
        form_state == get_contact_form_state(sm2, session_id)
    IN [sm |-> sm2, form_state |-> form_state,
        form_data |-> IF form_state # IDLE THEN get_contact_form_data(sm2, session_id)
                      ELSE EmptyDict]

\* Lines 129-210 of process_message, for a call that read `form_state`
\* and `form_data` earlier, on the store as it is now
process_message_finish(sm, db, client, user_input, session_id, form_state, form_data, env) ==
    IF form_state # IDLE
    THEN contact_form_write_back(sm, db, client, user_input, session_id, form_state,
                                 form_data, env.mongo)
    ELSE agent_turn(sm, db, user_input, session_id, env)

\* What the Mongo server does with one save_session_conversation call:
\* as MongoOutcomes, or an exception that is not a PyMongoError
SaveOutcomes == MongoOutcomes \cup {"raises"}

\* MongoDBClient.save_session_conversation: the collection afterwards, the
\* returned id (None on a PyMongoError) and whether the call raised.
\* created_at is not modelled.
save_session_conversation(db, session_id, conversation_history, user_details, outcome) ==
    LET session_doc == [session_id |-> session_id,
                        conversation_history |-> conversation_history,
                        user_details |-> user_details,
                        message_count |-> Len(conversation_history)]
    IN
    CASE outcome = "ok" ->
            [db |-> Append(db, session_doc), id |-> <<"id", Len(db) + 1>>, raised |-> FALSE]
      [] outcome = "verify_error" ->
            [db |-> Append(db, session_doc), id |-> None, raised |-> FALSE]
      [] outcome = "insert_error" ->
            [db |-> db, id |-> None, raised |-> FALSE]
      [] OTHER ->
            [db |-> db, id |-> None, raised |-> TRUE]

\* An end_session that clears the session before it reads what to save
end_session_clearing_first(sm, db, client, session_id, outcome) ==
    IF session_id = "" THEN [sm |-> sm, db |-> db, raised |-> FALSE]
    ELSE LET cleared == clear_session(sm, session_id)
             conversation_history == get_session_history(cleared, session_id, NoLimit)
             user_details == get_contact_form_data(cleared, session_id)
         IN [sm |-> cleared,
             db |-> IF client /\ conversation_history # <<>>
                    THEN save_session_conversation(db, session_id, conversation_history,
                                                   user_details, outcome).db
                    ELSE db,
             raised |-> FALSE]

\* ChatBot.end_session: the session manager and the collection "sessions"
\* afterwards, and whether the call raised.  An exception of the save is
\* caught by the inner try, anything else by the outer one.
end_session(sm, db, client, session_id, outcome) ==
    IF session_id = "" THEN [sm |-> sm, db |-> db, raised |-> FALSE]
    ELSE LET conversation_history == get_session_history(sm, session_id, NoLimit)
             user_details == get_contact_form_data(sm, session_id)
             saved == IF client /\ conversation_history # <<>>
                      THEN save_session_conversation(db, session_id, conversation_history,
                                                     user_details, outcome).db
                      ELSE db
         IN [sm |-> clear_session(sm, session_id), db |-> saved, raised |-> FALSE]

\* ChatBot.process_message
process_message(sm, db, client, user_input, session_id, env) ==
    IF session_id = ""
    THEN TurnResult(sm, db, MessageErrorApology, "", "error", NoStep, NoAgent)
    ELSE
    LET sm1 == update_session_activity(sm, session_id).sm
        sm2 == append_message_to_history(sm1, session_id, "user", user_input)
        form_state == get_contact_form_state(sm2, session_id)
    IN IF form_state # IDLE
       THEN contact_form_turn(sm2, db, client, user_input, session_id, form_state, env.mongo)
       ELSE agent_turn(sm2, db, user_input, session_id, env)

-----------------------------------------------------------------------------
(* What users type, what the collaborators answer                          *)

In_Blank == <<" "," ">>
In_X == <<"J">>
In_Name == <<" ","A","l"," ">>
In_Email == <<"a","@","b",".","i","o">>
In_BadEmail == <<"a","@","b",".","c">>
In_Phone == <<"+","9","1"," ","1","2","3","4","5","-","6","7","8","9","0">>
In_ShortPhone == <<"+","1","2","3","4","5">>
In_Long == [i \in 1..(MaxNameLen + 1) |-> "x"]
In_Yes == <<" ","Y","e","s">>
In_No == <<"n","o">>
In_Connect == <<"C","a","l","l"," ","m","e">>
In_Query == <<"p","r","i","c","e","?">>

\* A passage of the vector store
Passage(content, source, distance, rerank_score) ==
    [content |-> content, source |-> source, distance |-> distance,
     rerank_score |-> rerank_score]

D_Good == Passage(<<"We collect name and email.">>, "privacy.pdf", 8, 3)
D_Far == Passage(<<"Office hours.">>, "about.pdf", 17, 9)
D_Blank == Passage(<<" ">>, "cover.pdf", 9, 1)

Reply(content) == [raises |-> FALSE, content |-> content]
Raises == [raises |-> TRUE, content |-> <<>>]
Found(results) == [raises |-> FALSE, results |-> results]
StoreDown == [raises |-> TRUE, results |-> <<>>]

\* One turn's collaborators: the classification call, the generation call,
\* the vector store, the re-ranker, random.choice and the Mongo server
MakeEnv(classifier, llm, retrieval, reranker, engagement, mongo) ==
    [classifier |-> classifier, llm |-> llm, retrieval |-> retrieval,
     reranker |-> reranker, engagement |-> engagement, mongo |-> mongo]

\* No collaborator is called
NoEnv == MakeEnv(Reply(<<>>), Reply(<<>>), Found(<<>>), "none", 1, "ok")

\* A query the store has nothing for; an explicit request to be contacted
Env_NoDocs ==
    MakeEnv(Reply(<<" ","Q","u","e","r","y","\n">>), Reply(T_Answer), Found(<<>>), "ok", 1, "ok")
Env_Contact ==
    MakeEnv(Reply(<<"C","O","N","T","A","C","T","_","R","E","Q","U","E","S","T">>), Reply(T_Brief), Found(<<>>), "none", 1, "ok")

AgentEnvs ==
    {MakeEnv(Reply(<<"q","u","e","r","y">>), Reply(T_Answer), Found(<<D_Good, D_Far>>), "ok", 1, "ok"),
     Env_NoDocs,
     MakeEnv(Reply(<<"Q","U","E","R","Y">>), Reply(T_Answer), StoreDown, "none", 1, "ok"),
     MakeEnv(Reply(<<"q","u","e","r","y">>), Reply(T_Answer), Found(<<D_Far>>), "ok", 1, "ok"),
     MakeEnv(Reply(<<"q","u","e","r","y">>), Reply(T_NoInfo), Found(<<D_Good>>), "raises", 1, "ok"),
     MakeEnv(Reply(<<"q","u","e","r","y">>), Reply(T_Brief), Found(<<D_Blank>>), "none", 1, "ok"),
     Env_Contact,
     MakeEnv(Reply(<<"g","r","e","e","t","i","n","g">>), Reply(T_Greeted), Found(<<>>), "none", 1, "ok"),
     MakeEnv(Reply(<<"c","a","s","u","a","l","_","c","h","a","t">>), Reply(T_Brief), Found(<<>>), "none", 1, "ok"),
     MakeEnv(Reply(<<"g","o","o","d","b","y","e">>), Raises, Found(<<>>), "none", 1, "ok"),
     MakeEnv(Reply(<<"f","o","l","l","o","w","u","p">>), Reply(T_Answer), Found(<<D_Good>>), "ok", 2, "ok"),
     MakeEnv(Reply(<<"u","n","c","l","e","a","r">>), Reply(T_Brief), Found(<<>>), "none", 1, "ok"),
     MakeEnv(Raises, Reply(T_Brief), Found(<<D_Good>>), "none", 1, "ok")}

\* The collaborators a turn can reach: the agent's when the form state is
\* idle, the Mongo server when a timezone is being collected, none otherwise
TurnEnvs(form_state, envs) ==
    IF form_state = IDLE THEN envs
    ELSE IF form_state = COLLECTING_TIMEZONE
    THEN {[NoEnv EXCEPT !.mongo = outcome] : outcome \in MongoOutcomes}
    ELSE {NoEnv}

-----------------------------------------------------------------------------
(* The handler on its own: one call of handle_contact_form_step, on any   *)
(* state, input and form data                                              *)

StepStates == ContactFormState \cup {"archived"}

StepInputs ==
    {<<>>, In_Blank, In_X, In_Name, In_Email, In_BadEmail, In_Phone, In_ShortPhone,
     In_Long, In_Yes, In_No, In_Connect}

\* Form data as the flows leave it between turns
FormDataSamples ==
    LET query == DictSet(EmptyDict, "original_query", In_Query)
        name == DictSet(EmptyDict, "name", <<"A","l">>)
        email(d) == DictSet(d, "email", In_Email)
        mobile(d) == DictSet(d, "mobile", In_Phone)
        datetime(d) == DictSet(d, "preferred_datetime", In_Email)
        withname == DictSet(query, "name", <<"A","l">>)
    IN {EmptyDict, query, name, email(name), mobile(email(name)),
        withname, email(withname), mobile(email(withname)),
        datetime(mobile(email(withname))), datetime(mobile(email(name)))}

\* text_to_voice_server at import: no client, no response
FrontEndInit ==
    /\ clients = EmptyDict
    /\ active_responses = EmptyDict
    /\ tasks = EmptyDict
    /\ emitted = <<>>

InitStep ==
    /\ session_manager = SessionManagerInit(FALSE)
    /\ memory_manager = SessionManagerInit(FALSE)
    /\ FrontEndInit
    /\ mongodb_client \in BOOLEAN
    /\ contact_requests = <<>>
    /\ sessions = <<>>
    /\ issued = {"s1"}
    /\ \E form_state \in StepStates, user_input \in StepInputs,
          form_data \in FormDataSamples, outcome \in MongoOutcomes :
          last = [op |-> "call", form_state |-> form_state, user_input |-> user_input,
                  form_data |-> form_data, outcome |-> outcome,
                  result |-> [next_state |-> "", response |-> <<>>, form_data |-> EmptyDict]]

\* The pending call is made and returns
HandleStep ==
    /\ last.op = "call"
    /\ LET result == handle_contact_form_step(last.form_state, last.user_input,
                                              last.form_data, "s1", mongodb_client,
                                              contact_requests, last.outcome)
       IN /\ last' = [last EXCEPT !.op = "handle_contact_form_step",
                                  !.result = [next_state |-> result.next_state,
                                              response |-> result.response,
                                              form_data |-> result.form_data]]
          /\ contact_requests' = result.db
    /\ UNCHANGED <<session_manager, mongodb_client, sessions, issued, memory_manager, front_end>>

NextStep == HandleStep

SpecStep == InitStep /\ [][NextStep]_vars

-----------------------------------------------------------------------------
(* Conversations: sessions are started and turns are processed             *)

\* What `last` holds after a call: the operation, its arguments, what the
\* collaborators did and what the call returned
CallRecord(op, session_id, user_input, env, form_state, route, step, agent, response) ==
    [op |-> op, session_id |-> session_id, user_input |-> user_input, env |-> env,
     form_state |-> form_state, route |-> route, step |-> step, agent |-> agent,
     response |-> response]

NoCall == CallRecord("init", "", <<>>, NoEnv, "", "", NoStep, NoAgent, <<>>)

\* session_data['query_count']
query_count(sm, session_id) ==
    IF ~sm.redis_available
    THEN sm.memory_sessions[session_id].query_count
    ELSE json_loads(sm.redis[SessionKey(session_id)]).query_count

\* The program after ChatBot.start_session, as [sm, db, last]
start_session(sm, db, session_id) ==
    [sm |-> create_session(sm, session_id), db |-> db,
     last |-> CallRecord("start_session", session_id, <<>>, NoEnv, "", "", NoStep, NoAgent,
                         WelcomeMessage)]

\* The program after one process_message call, as [sm, db, last]
turn(sm, db, client, user_input, session_id, env) ==
    LET r == process_message(sm, db, client, user_input, session_id, env) IN
    [sm |-> r.sm, db |-> r.db,
     last |-> CallRecord("process_message", session_id, user_input, env, r.form_state,
                         r.route, r.step, r.agent, r.response)]

StartSession ==
    \E session_id \in SessionIds \ issued :
        \E after \in {start_session(session_manager, contact_requests, session_id)} :
        /\ session_manager' = after.sm
        /\ issued' = issued \cup {session_id}
        /\ last' = after.last
        /\ UNCHANGED <<mongodb_client, sessions, contact_requests, memory_manager, front_end>>

\* One message of a live session, while the session has had fewer than
\* `bound` turns
Turn(bound, inputs, envs) ==
    \E session_id \in issued :
        /\ is_session_valid(session_manager, session_id)
        /\ query_count(session_manager, session_id) < bound
        /\ \E user_input \in inputs,
              env \in TurnEnvs(get_contact_form_state(session_manager, session_id), envs) :
              \E after \in {turn(session_manager, contact_requests, mongodb_client,
                                  user_input, session_id, env)} :
                 /\ session_manager' = after.sm
                 /\ contact_requests' = after.db
                 /\ last' = after.last
        /\ UNCHANGED <<mongodb_client, sessions, issued, memory_manager, front_end>>

MaxTurns == 5
TurnInputs == {In_X, In_Email, In_Phone, In_Yes}

Init ==
    /\ \E redis_available \in BOOLEAN : session_manager = SessionManagerInit(redis_available)
    /\ memory_manager = SessionManagerInit(FALSE)
    /\ FrontEndInit
    /\ mongodb_client \in BOOLEAN
    /\ contact_requests = <<>>
    /\ sessions = <<>>
    /\ issued = {}
    /\ last = NoCall

ProcessMessage == Turn(MaxTurns, TurnInputs, AgentEnvs)

Next == StartSession \/ ProcessMessage

Spec == Init /\ [][Next]_vars

-----------------------------------------------------------------------------
(* Properties of handle_contact_form_step (SpecStep)                       *)

InitialFieldStates ==
    {INITIAL_COLLECTING_NAME, INITIAL_COLLECTING_EMAIL, INITIAL_COLLECTING_PHONE}
FieldStates ==
    InitialFieldStates \cup {COLLECTING_NAME, COLLECTING_EMAIL, COLLECTING_PHONE,
                             COLLECTING_DATETIME, COLLECTING_TIMEZONE}

\* The verdict of the validator of the field a state collects
FieldCheck(form_state, text) ==
    CASE form_state \in {INITIAL_COLLECTING_NAME, COLLECTING_NAME} -> validate_name(text)
      [] form_state \in {INITIAL_COLLECTING_EMAIL, COLLECTING_EMAIL} -> validate_email(text)
      [] form_state \in {INITIAL_COLLECTING_PHONE, COLLECTING_PHONE} -> validate_phone(text)
      [] form_state = COLLECTING_DATETIME -> validate_datetime(text)
      [] form_state = COLLECTING_TIMEZONE -> validate_timezone(text)

\* The documented transitions on a valid input
DocumentedSuccessor ==
    [form_state \in FieldStates |->
        CASE form_state = INITIAL_COLLECTING_NAME -> INITIAL_COLLECTING_EMAIL
          [] form_state = INITIAL_COLLECTING_EMAIL -> INITIAL_COLLECTING_PHONE
          [] form_state = INITIAL_COLLECTING_PHONE -> IDLE
          [] form_state = COLLECTING_NAME -> COLLECTING_EMAIL
          [] form_state = COLLECTING_EMAIL -> COLLECTING_PHONE
          [] form_state = COLLECTING_PHONE -> COLLECTING_DATETIME
          [] form_state = COLLECTING_DATETIME -> COLLECTING_TIMEZONE
          [] form_state = COLLECTING_TIMEZONE -> COMPLETED]

Returned == last.op = "handle_contact_form_step"

\* C2: in every field-collecting state, an input the field's validator
\* rejects leaves the state where it was, returns the form data unchanged,
\* creates no Contact Request, and the response starts with the
\* validator's error message.
C2_RetryInPlace ==
    (Returned /\ last.form_state \in FieldStates
       /\ ~FieldCheck(last.form_state, last.user_input).is_valid)
    => /\ last.result.next_state = last.form_state
       /\ last.result.form_data = last.form_data
       /\ contact_requests = <<>>
       /\ startswith(last.result.response, FieldCheck(last.form_state, last.user_input).error)

\* A rejected timezone with every other field collected and a Mongo client
\* at hand: nothing is saved and the state stays collecting_timezone
C2_Witness ==
    /\ Returned /\ last.form_state = COLLECTING_TIMEZONE /\ last.user_input = In_X
    /\ mongodb_client /\ last.outcome = "ok"
    /\ {"name", "email", "mobile", "preferred_datetime"} \subseteq DOMAIN last.form_data
    /\ last.result.next_state = COLLECTING_TIMEZONE
    /\ contact_requests = <<>>

\* C3: in every field-collecting state, an input the field's validator
\* accepts moves to the documented successor and nowhere else, and no call
\* in a field-collecting state moves anywhere but to the same state or
\* that successor (never back to an earlier field).
C3_DocumentedSuccessor ==
    (Returned /\ last.form_state \in FieldStates)
    => /\ FieldCheck(last.form_state, last.user_input).is_valid
            => last.result.next_state = DocumentedSuccessor[last.form_state]
       /\ last.result.next_state \in {last.form_state, DocumentedSuccessor[last.form_state]}

\* An accepted phone number (typed with a space and a dash) moves
\* collecting_phone to collecting_datetime
C3_Witness ==
    /\ Returned /\ last.form_state = COLLECTING_PHONE /\ last.user_input = In_Phone
    /\ last.result.next_state = COLLECTING_DATETIME
    /\ last.result.form_data["mobile"] = In_Phone

\* C5: from asking_consent, a reply that is yes, y, sure, ok, okay or yeah
\* once stripped and lower-cased moves to collecting_name with the form
\* data unchanged; any other reply moves to idle with empty form data.
C5_Consent ==
    (Returned /\ last.form_state = ASKING_CONSENT)
    => IF lower(strip(last.user_input)) \in
             {<<"y","e","s">>, <<"y">>, <<"s","u","r","e">>, <<"o","k">>,
              <<"o","k","a","y">>, <<"y","e","a","h">>}
       THEN /\ last.result.next_state = COLLECTING_NAME
            /\ last.result.form_data = last.form_data
       ELSE /\ last.result.next_state = IDLE
            /\ DOMAIN last.result.form_data = {}

\* " Yes" is taken as consent and keeps the triggering query; the reply
\* is not one of the six words before it is stripped and lower-cased
C5_Witness ==
    /\ Returned /\ last.form_state = ASKING_CONSENT /\ last.user_input = In_Yes
    /\ last.result.next_state = COLLECTING_NAME
    /\ "original_query" \in DOMAIN last.result.form_data

\* C11: the completing step (collecting_timezone, an input
\* validate_timezone accepts) returns completed, empty form data and the
\* same success message whether there is no Mongo client, the request is
\* filed and an id returned, the insert or the read-back fails, or a
\* field is missing from the form data (KeyError inside the try).
C11_CompletionIgnoresPersistence ==
    (Returned /\ last.form_state = COLLECTING_TIMEZONE
       /\ validate_timezone(strip(last.user_input)).is_valid)
    => /\ last.result.next_state = COMPLETED
       /\ DOMAIN last.result.form_data = {}
       /\ last.result.response = AllSetPrompt

\* A completing step whose insert failed: nothing is on file, and the
\* step still returns completed
C11_Witness ==
    /\ Returned /\ last.form_state = COLLECTING_TIMEZONE /\ last.user_input = In_Name
    /\ mongodb_client /\ last.outcome = "insert_error"
    /\ {"name", "email", "mobile", "preferred_datetime"} \subseteq DOMAIN last.form_data
    /\ contact_requests = <<>>
    /\ last.result.next_state = COMPLETED

-----------------------------------------------------------------------------
(* Properties of conversations (Spec)                                      *)

History(session_id) == get_session_history(session_manager, session_id, NoLimit)

\* The messages the user sent, oldest first
UserMessages(history) ==
    LET users == SelectSeq(history, LAMBDA entry : entry.role = "user") IN
    [i \in 1..Len(users) |-> users[i].message]

StoredState(session_id) == get_contact_form_state(session_manager, session_id)
StoredData(session_id) == get_contact_form_data(session_manager, session_id)

\* A collection as the documentation describes it: the fields of `chain`
\* are asked in order, a message the field's validator accepts is stored
\* stripped and moves to the next field, any other message is asked again.
\* acc is [at, data, used]: the field being asked, the values stored and
\* the number of messages read; reading stops when the chain is finished.
RECURSIVE Collected(_, _, _)
Collected(chain, users, acc) ==
    IF users = <<>> \/ acc.at > Len(chain) THEN acc
    ELSE Collected(chain, Tail(users),
                   IF FieldCheck(chain[acc.at].state, Head(users)).is_valid
                   THEN [at |-> acc.at + 1,
                         data |-> DictSet(acc.data, chain[acc.at].field, strip(Head(users))),
                         used |-> acc.used + 1]
                   ELSE [acc EXCEPT !.used = @ + 1])

InitialChain ==
    <<[state |-> INITIAL_COLLECTING_NAME, field |-> "name"],
      [state |-> INITIAL_COLLECTING_EMAIL, field |-> "email"],
      [state |-> INITIAL_COLLECTING_PHONE, field |-> "mobile"]>>

InitialCollection(session_id) ==
    Collected(InitialChain, UserMessages(History(session_id)),
              [at |-> 1, data |-> EmptyDict, used |-> 0])

\* C1: a turn of a session whose stored form state is not idle goes to
\* handle_contact_form_step and never to the classifier or the agent, and
\* the handler's next_state and form_data are in the session store when
\* the handler's response is returned.
C1_FormTurnsBypassAgent ==
    [][(last'.op = "process_message"
          /\ get_contact_form_state(session_manager, last'.session_id) # IDLE)
       => LET session_id == last'.session_id
              result == handle_contact_form_step(
                            get_contact_form_state(session_manager, session_id),
                            last'.user_input,
                            get_contact_form_data(session_manager, session_id),
                            session_id, mongodb_client, contact_requests, last'.env.mongo)
          IN /\ last'.route = "contact_form"
             /\ last'.agent = NoAgent
             /\ get_contact_form_state(session_manager', session_id) = result.next_state
             /\ get_contact_form_data(session_manager', session_id) = result.form_data
             /\ last'.response = result.response]_vars

\* A consent answer handled by the form: " Yes" in asking_consent leaves
\* collecting_name and the triggering query in the store
C1_Witness ==
    /\ last.op = "process_message" /\ last.form_state = ASKING_CONSENT
    /\ last.user_input = In_Yes /\ last.route = "contact_form"
    /\ StoredState(last.session_id) = COLLECTING_NAME
    /\ "original_query" \in DOMAIN StoredData(last.session_id)

\* C6: a session starts in initial_collecting_name; while the initial
\* collection lasts, the stored state and data are those of the documented
\* collection over the messages sent so far; and at the turn that brings
\* the third accepted value the state is idle and the stored data is
\* exactly name, email and mobile with the accepted values.
C6_InitialCollection ==
    \A session_id \in issued :
        is_session_valid(session_manager, session_id)
        => LET ref == InitialCollection(session_id) IN
           IF ref.at <= Len(InitialChain)
           THEN /\ StoredState(session_id) = InitialChain[ref.at].state
                /\ StoredData(session_id) = ref.data
           ELSE ref.used = Len(UserMessages(History(session_id)))
                => /\ StoredState(session_id) = IDLE
                   /\ DOMAIN StoredData(session_id) = {"name", "email", "mobile"}
                   /\ StoredData(session_id) = ref.data

\* The initial collection finished at the fifth message, two messages
\* having been rejected on the way
C6_Witness ==
    \E session_id \in issued :
        LET ref == InitialCollection(session_id) IN
        /\ ref.at > Len(InitialChain)
        /\ ref.used = 5 /\ Len(History(session_id)) = 10
        /\ StoredState(session_id) = IDLE
        /\ StoredData(session_id)["email"] = In_Email
        /\ StoredData(session_id)["mobile"] = In_Phone

\* Name, email and mobile are all held, non-empty
HoldsContactData(form_data) ==
    /\ DictTruthy(form_data, "name")
    /\ DictTruthy(form_data, "email")
    /\ DictTruthy(form_data, "mobile")

\* C7: a turn handled in state idle leaves the retained name, email and
\* mobile in the session's form data, with unchanged values.
C7_RetainedDataKept ==
    [][(/\ last'.op = "process_message"
        /\ get_contact_form_state(session_manager, last'.session_id) = IDLE
        /\ HoldsContactData(get_contact_form_data(session_manager, last'.session_id)))
       => \A field \in {"name", "email", "mobile"} :
             /\ field \in DOMAIN get_contact_form_data(session_manager', last'.session_id)
             /\ get_contact_form_data(session_manager', last'.session_id)[field]
                   = get_contact_form_data(session_manager, last'.session_id)[field]]_vars

\* No passage of the store's answer passes the distance filter
NoPassageSurvives(retrieval) ==
    retrieval.raises
    \/ \A i \in DOMAIN retrieval.results : retrieval.results[i].distance >= DistanceThreshold

\* C9: an idle turn classified query for which no retrieved passage
\* survives the filter (the store failing included) gets the sentinel from
\* the generator; the state becomes asking_consent, the form data exactly
\* {original_query: the input}, and the consent question is returned.
C9_NoPassageAsksConsent ==
    (/\ last.op = "process_message" /\ last.route = "agent"
     /\ last.agent.intent = QUERY
     /\ NoPassageSurvives(last.env.retrieval))
    => /\ last.agent.response = TRIGGER_CONTACT_FORM
       /\ StoredState(last.session_id) = ASKING_CONSENT
       /\ StoredData(last.session_id) = DictSet(EmptyDict, "original_query", last.user_input)
       /\ last.response = ask_for_contact_consent(last.user_input, FALSE)
       /\ History(last.session_id)[Len(History(last.session_id))]
             = HistoryEntry("bot", last.response)

\* The vector store failed during a query turn and the consent question
\* was asked
C9_Witness ==
    /\ last.op = "process_message" /\ last.agent.intent = QUERY
    /\ last.env.retrieval.raises
    /\ StoredState(last.session_id) = ASKING_CONSENT
    /\ last.response # TRIGGER_CONTACT_FORM
    /\ last.response = ask_for_contact_consent(last.user_input, FALSE)

-----------------------------------------------------------------------------------------------------------------------------------------------------
(* Conversations with a scripted opening: the session first receives the   *)
(* six messages of a script, one process_message call each, and any        *)
(* message after that                                                      *)

Said(user_input, env) == [user_input |-> user_input, env |-> env]

\* The messages the session has received are the first messages of
\* `script`, in order
Following(script, session_id) ==
    LET users == UserMessages(History(session_id)) IN
    \A i \in 1..Len(users) : i <= Len(script) => users[i] = script[i].user_input

\* The next message of one of `scripts`, to a session that has received
\* the messages before it
OpeningTurn(scripts) ==
    \E session_id \in issued, script \in scripts :
        /\ is_session_valid(session_manager, session_id)
        /\ query_count(session_manager, session_id) < Len(script)
        /\ Following(script, session_id)
        /\ \E said \in {script[query_count(session_manager, session_id) + 1]} :
              \E after \in {turn(session_manager, contact_requests, mongodb_client,
                                  said.user_input, session_id, said.env)} :
                 /\ session_manager' = after.sm
                 /\ contact_requests' = after.db
                 /\ last' = after.last
        /\ UNCHANGED <<mongodb_client, sessions, issued, memory_manager, front_end>>

\* One message of a session that has received all of one of `scripts`
\* and fewer than `extra` messages since
LaterTurn(scripts, extra, inputs, envs) ==
    /\ \E session_id \in issued, script \in scripts :
          /\ is_session_valid(session_manager, session_id)
          /\ query_count(session_manager, session_id) >= Len(script)
          /\ Following(script, session_id)
    /\ \E script \in scripts : Turn(Len(script) + extra, inputs, envs)

\* Idle with the contact details retained; idle after a refused consent
IdleWithDetails ==
    <<Said(In_X, NoEnv), Said(In_Name, NoEnv), Said(In_Blank, NoEnv), Said(In_Email, NoEnv),
      Said(In_ShortPhone, NoEnv), Said(In_Phone, NoEnv)>>
IdleDeclined ==
    <<Said(In_Name, NoEnv), Said(In_Email, NoEnv), Said(In_X, NoEnv), Said(In_Phone, NoEnv),
      Said(In_Query, Env_NoDocs), Said(In_No, NoEnv)>>

MaxIdleTurns == 1
IdleInputs == {In_Blank, In_X, In_Email, In_Connect, In_Query, In_Yes}

IdleScripts == {IdleWithDetails, IdleDeclined}

IdleOpening == OpeningTurn(IdleScripts)

IdleTurn == LaterTurn(IdleScripts, MaxIdleTurns, IdleInputs, AgentEnvs)

NextIdle == StartSession \/ IdleOpening \/ IdleTurn

SpecIdle == Init /\ [][NextIdle]_vars

\* A collection about to start: asked for explicitly after a refusal,
\* consented to, and asked for explicitly with the details retained
CollectExplicit ==
    <<Said(In_Name, NoEnv), Said(In_Email, NoEnv), Said(In_Phone, NoEnv),
      Said(In_Query, Env_NoDocs), Said(In_No, NoEnv), Said(In_Connect, Env_Contact)>>
CollectConsented ==
    <<Said(In_X, NoEnv), Said(In_Name, NoEnv), Said(In_Email, NoEnv), Said(In_Phone, NoEnv),
      Said(In_Query, Env_NoDocs), Said(In_Yes, NoEnv)>>
CollectReentry ==
    <<Said(In_X, NoEnv), Said(In_Name, NoEnv), Said(In_Blank, NoEnv), Said(In_Email, NoEnv),
      Said(In_Phone, NoEnv), Said(In_Connect, Env_Contact)>>

MaxCollectTurns == 6
CollectInputs == {In_X, In_Email, In_Phone, In_Yes}

CollectScripts == {CollectExplicit, CollectConsented, CollectReentry}

CollectOpening == OpeningTurn(CollectScripts)

CollectTurn ==
    LaterTurn(CollectScripts, MaxCollectTurns, CollectInputs, {Env_Contact, Env_NoDocs})

NextCollect == StartSession \/ CollectOpening \/ CollectTurn

SpecCollect == Init /\ [][NextCollect]_vars

-----------------------------------------------------------------------------
(* Properties of idle turns (SpecIdle)                                     *)

\* C8: an idle turn classified contact_request, in a session whose form
\* data holds non-empty name, email and mobile, moves to
\* collecting_datetime and keeps the data, adding original_query = the
\* input; in any other session it sets the form data to exactly
\* {original_query: the input}, moves to collecting_name without asking
\* for consent, and asks for the user's name.
C8_ExplicitContactRequest ==
    [][(/\ last'.op = "process_message"
        /\ get_contact_form_state(session_manager, last'.session_id) = IDLE
        /\ classify_intent(last'.user_input, last'.env.classifier) = CONTACT_REQUEST)
       => LET session_id == last'.session_id
              held == get_contact_form_data(session_manager, session_id)
              kept == get_contact_form_data(session_manager', session_id)
          IN IF HoldsContactData(held)
             THEN /\ get_contact_form_state(session_manager', session_id) = COLLECTING_DATETIME
                  /\ DOMAIN kept = DOMAIN held \cup {"original_query"}
                  /\ \A field \in {"name", "email", "mobile"} : kept[field] = held[field]
                  /\ kept["original_query"] = last'.user_input
             ELSE /\ get_contact_form_state(session_manager', session_id) = COLLECTING_NAME
                  /\ kept = DictSet(EmptyDict, "original_query", last'.user_input)
                  /\ last'.response = ExplicitRequestPrompt]_vars

\* "Call me", recognised by the keyword heuristic while the classifier is
\* down, in a session that holds the details: only availability is asked
C8_Witness ==
    /\ last.op = "process_message" /\ last.form_state = IDLE
    /\ last.env.classifier.raises /\ last.user_input = In_Connect
    /\ StoredState(last.session_id) = COLLECTING_DATETIME
    /\ StoredData(last.session_id)["name"] = <<"A", "l">>
    /\ StoredData(last.session_id)["original_query"] = In_Connect
    /\ last.response = AvailabilityPrompt

-----------------------------------------------------------------------------
(* Properties of collections (SpecCollect)                                 *)

CollectChain ==
    <<[state |-> COLLECTING_NAME, field |-> "name"],
      [state |-> COLLECTING_EMAIL, field |-> "email"],
      [state |-> COLLECTING_PHONE, field |-> "mobile"],
      [state |-> COLLECTING_DATETIME, field |-> "preferred_datetime"],
      [state |-> COLLECTING_TIMEZONE, field |-> "timezone"]>>

\* The position in `history` of the last bot message among `prompts`,
\* 0 if there is none
LastPrompt(history, prompts) ==
    LET at == {i \in DOMAIN history :
                  history[i].role = "bot" /\ history[i].message \in prompts}
    IN IF at = {} THEN 0 ELSE CHOOSE i \in at : \A j \in at : j <= i

\* The messages the user sent after position i
UsersAfter(history, i) == UserMessages(SubSeq(history, i + 1, Len(history)))

\* The documented collection over the messages sent since the session was
\* last asked for a name to start a collection (reading nothing if it
\* never was)
NameCollection(history) ==
    LET start == LastPrompt(history, {ExplicitRequestPrompt, ConsentYesPrompt}) IN
    Collected(CollectChain,
              IF start = 0 THEN <<>> ELSE UsersAfter(history, start),
              [at |-> 1, data |-> EmptyDict, used |-> 0])

\* C4: from collecting_name, the stored state follows the documented
\* collection whatever rejected inputs come in between, and at the turn
\* that brings the fifth accepted value (name, email, phone, datetime,
\* timezone) the stored state is completed and the stored form data is
\* empty.
C4_CollectionCompletes ==
    \A session_id \in issued :
        LET history == History(session_id)
            start == LastPrompt(history, {ExplicitRequestPrompt, ConsentYesPrompt})
            ref == NameCollection(history)
        IN (is_session_valid(session_manager, session_id) /\ start > 0)
           => IF ref.at <= Len(CollectChain)
              THEN StoredState(session_id) = CollectChain[ref.at].state
              ELSE ref.used = Len(UsersAfter(history, start))
                   => /\ StoredState(session_id) = COMPLETED
                      /\ DOMAIN StoredData(session_id) = {}

\* A collection consented to and completed at its sixth message, one
\* message having been rejected on the way
C4_Witness ==
    \E session_id \in issued :
        LET history == History(session_id)
            start == LastPrompt(history, {ExplicitRequestPrompt, ConsentYesPrompt})
            ref == NameCollection(history)
        IN /\ start > 0 /\ history[start].message = ConsentYesPrompt
           /\ ref.at > Len(CollectChain)
           /\ ref.used = 6 /\ Len(UsersAfter(history, start)) = 6
           /\ StoredState(session_id) = COMPLETED
           /\ DOMAIN StoredData(session_id) = {}

\* The Contact Request the documentation expects of the collection in
\* progress in `history` once `user_input` is accepted as its timezone:
\* the values accepted since the collection started (name, email and
\* mobile being those of the initial collection when the session kept
\* them and was only asked for its availability), and the message that
\* triggered the collection.
ExpectedRequest(session_id, history, user_input) ==
    LET start == LastPrompt(history, {ExplicitRequestPrompt, ConsentYesPrompt,
                                      AvailabilityPrompt})
        reentry == history[start].message = AvailabilityPrompt
        trigger == IF history[start].message = ConsentYesPrompt
                   THEN history[start - 3].message
                   ELSE history[start - 1].message
        ref == Collected(IF reentry THEN SubSeq(CollectChain, 4, 5) ELSE CollectChain,
                         Append(UsersAfter(history, start), user_input),
                         [at |-> 1,
                          data |-> IF reentry
                                   THEN Collected(InitialChain, UserMessages(history),
                                                  [at |-> 1, data |-> EmptyDict,
                                                   used |-> 0]).data
                                   ELSE EmptyDict,
                          used |-> 0])
    IN [session_id |-> session_id,
        name |-> ref.data["name"],
        email |-> ref.data["email"],
        mobile |-> ref.data["mobile"],
        preferred_datetime |-> ref.data["preferred_datetime"],
        timezone |-> ref.data["timezone"],
        original_query |-> trigger,
        status |-> "pending"]

\* C10: the contact_requests collection changes only in a turn that takes
\* a session from collecting_timezone to completed on an input
\* validate_timezone accepts; that turn adds exactly one record, whose
\* session id and fields are the values accepted during the collection
\* and whose original_query is the message that triggered it.
C10_RequestOnlyOnCompletion ==
    [][contact_requests' # contact_requests
       => LET session_id == last'.session_id IN
          /\ last'.op = "process_message"
          /\ get_contact_form_state(session_manager, session_id) = COLLECTING_TIMEZONE
          /\ get_contact_form_state(session_manager', session_id) = COMPLETED
          /\ validate_timezone(last'.user_input).is_valid
          /\ contact_requests'
                = Append(contact_requests,
                         ExpectedRequest(session_id,
                                         get_session_history(session_manager, session_id,
                                                             NoLimit),
                                         last'.user_input))]_vars

\* One request on file, of a collection the user consented to after a
\* query without an answer: it carries that query and the accepted values
C10_Witness ==
    /\ Len(contact_requests) = 1
    /\ contact_requests[1].original_query = In_Query
    /\ contact_requests[1].email = In_Email
    /\ contact_requests[1].mobile = In_Phone
    /\ contact_requests[1].timezone = <<"Y", "e", "s">>
    /\ StoredState("s1") = COMPLETED

-----------------------------------------------------------------------------
(* The session store on its own: the methods of SessionManager called in   *)
(* any order on a manager connected to Redis, and the same calls made on  *)
(* a manager constructed while Redis was down                              *)

\* An id uuid4 never returns: a session nobody created
NeverIssued == {"s0"}

MaxHistory == 3
MaxActivity == 2

StoreRoles == {"user", "bot"}
StoreMessages == {In_X, In_Query}
StoreStates == {COLLECTING_NAME, IDLE}
StoreData == {DictSet(EmptyDict, "name", <<"A", "l">>)}

\* What `last` holds after a call of a SessionManager method: the method,
\* its arguments, and what it returned from each of the two managers
StoreCall(op, session_id, argument, result, memory_result) ==
    [op |-> op, session_id |-> session_id, argument |-> argument,
     result |-> result, memory_result |-> memory_result]

\* What the getters of SessionManager return for a session
Observed(sm, session_id) ==
    [is_session_valid |-> is_session_valid(sm, session_id),
     get_session_history |-> get_session_history(sm, session_id, NoLimit),
     get_last_user_query |-> get_last_user_query(sm, session_id, FALSE),
     get_contact_form_state |-> get_contact_form_state(sm, session_id),
     get_contact_form_data |-> get_contact_form_data(sm, session_id)]

InitStore ==
    /\ session_manager = SessionManagerInit(TRUE)
    /\ memory_manager = SessionManagerInit(FALSE)
    /\ mongodb_client = FALSE
    /\ contact_requests = <<>>
    /\ sessions = <<>>
    /\ issued = {}
    /\ last = StoreCall("init", "", <<>>, <<>>, <<>>)
    /\ FrontEndInit

\* The call is made on session_manager, and on memory_manager as long as
\* there is a reachable Redis to compare it with
Called(op, session_id, argument, after, result, memory_after, memory_result) ==
    /\ session_manager' = after
    /\ memory_manager' = IF session_manager.redis_reachable THEN memory_after
                         ELSE memory_manager
    /\ last' = StoreCall(op, session_id, argument, result, memory_result)
    /\ UNCHANGED <<mongodb_client, sessions, contact_requests, front_end>>

CreateSession ==
    \E session_id \in SessionIds \ issued :
        /\ Called("create_session", session_id, <<>>,
                  create_session(session_manager, session_id), session_id,
                  create_session(memory_manager, session_id), session_id)
        /\ issued' = issued \cup {session_id}

UpdateSessionActivity ==
    \E session_id \in issued \cup NeverIssued :
        /\ \A info \in get_session_info(session_manager, session_id) :
              info.query_count < MaxActivity
        /\ is_session_valid(memory_manager, session_id)
              => query_count(memory_manager, session_id) < MaxActivity
        /\ \E updated \in {update_session_activity(session_manager, session_id)},
              memory_updated \in {update_session_activity(memory_manager, session_id)} :
              Called("update_session_activity", session_id, <<>>,
                     updated.sm, updated.ok, memory_updated.sm, memory_updated.ok)
        /\ UNCHANGED issued

AppendMessageToHistory ==
    \E session_id \in issued, role \in StoreRoles, message \in StoreMessages :
        /\ Len(get_session_history(session_manager, session_id, NoLimit)) < MaxHistory
        /\ Len(get_session_history(memory_manager, session_id, NoLimit)) < MaxHistory
        /\ Called("append_message_to_history", session_id, <<role, message>>,
                  append_message_to_history(session_manager, session_id, role, message),
                  returns_true(session_manager),
                  append_message_to_history(memory_manager, session_id, role, message),
                  returns_true(memory_manager))
        /\ UNCHANGED issued

SetContactFormState ==
    \E session_id \in issued, state \in StoreStates :
        /\ Called("set_contact_form_state", session_id, <<state>>,
                  set_contact_form_state(session_manager, session_id, state),
                  returns_true(session_manager),
                  set_contact_form_state(memory_manager, session_id, state),
                  returns_true(memory_manager))
        /\ UNCHANGED issued

SetContactFormData ==
    \E session_id \in issued, data \in StoreData :
        /\ Called("set_contact_form_data", session_id, <<data>>,
                  set_contact_form_data(session_manager, session_id, data),
                  returns_true(session_manager),
                  set_contact_form_data(memory_manager, session_id, data),
                  returns_true(memory_manager))
        /\ UNCHANGED issued

ClearContactForm ==
    \E session_id \in issued :
        /\ \E cleared \in {clear_contact_form(session_manager, session_id)},
              memory_cleared \in {clear_contact_form(memory_manager, session_id)} :
              Called("clear_contact_form", session_id, <<>>,
                     cleared.sm, cleared.ok, memory_cleared.sm, memory_cleared.ok)
        /\ UNCHANGED issued

ClearSession ==
    \E session_id \in issued :
        /\ Called("clear_session", session_id, <<>>,
                  clear_session(session_manager, session_id), returns_true(session_manager),
                  clear_session(memory_manager, session_id), returns_true(memory_manager))
        /\ UNCHANGED issued

\* The Redis server stops answering, for good
RedisFails ==
    /\ session_manager.redis_reachable
    /\ session_manager' = [session_manager EXCEPT !.redis_reachable = FALSE]
    /\ last' = [op |-> "redis_fails", session_id |-> ""]
    /\ UNCHANGED <<mongodb_client, sessions, contact_requests, issued, memory_manager, front_end>>

NextStore ==
    \/ CreateSession
    \/ UpdateSessionActivity
    \/ AppendMessageToHistory
    \/ SetContactFormState
    \/ SetContactFormData
    \/ ClearContactForm
    \/ ClearSession
    \/ RedisFails

SpecStore == InitStore /\ [][NextStore]_vars

-----------------------------------------------------------------------------
(* Properties of the session store (SpecStore)                             *)

\* What the getters return for a session that does not exist
Absent ==
    [is_session_valid |-> FALSE,
     get_session_history |-> <<>>,
     get_last_user_query |-> None,
     get_contact_form_state |-> IDLE,
     get_contact_form_data |-> EmptyDict]

\* C12: after clear_session(id), first or repeated, nothing of the
\* session is left in either backend: is_session_valid is false, the
\* history is empty, the contact-form state is idle and the contact-form
\* data is empty.
C12_ClearSessionRemovesAll ==
    last.op = "clear_session"
    => /\ Observed(session_manager, last.session_id) = Absent
       /\ Observed(memory_manager, last.session_id) = Absent

\* C16: as long as Redis answers, every call returns the same from the
\* manager on Redis and from the in-memory manager given the same calls,
\* and every getter, get_session_info included, returns the same from
\* both for every session.
C16_BackendsAgree ==
    (session_manager.redis_reachable /\ last.op # "init")
    => /\ last.result = last.memory_result
       /\ \A session_id \in SessionIds \cup NeverIssued :
             /\ Observed(session_manager, session_id) = Observed(memory_manager, session_id)
             /\ get_session_info(session_manager, session_id)
                   = get_session_info(memory_manager, session_id)

\* A session as create_session leaves it
Created(sm, session_id) ==
    /\ is_session_valid(sm, session_id)
    /\ query_count(sm, session_id) = 0
    /\ get_contact_form_state(sm, session_id) = INITIAL_COLLECTING_NAME

\* C17: create_session returns an id it never returned before, of a
\* session that is valid, has turn count 0 and is in
\* initial_collecting_name, whether Redis was unreachable when the manager
\* was constructed or is unreachable now.
C17_CreateSession ==
    [][last'.op = "create_session"
       => /\ last'.result \notin issued
          /\ Created(session_manager', last'.result)
          /\ session_manager.redis_reachable => Created(memory_manager', last'.result)]_vars

\* The session's entry in the store, whichever the backend: its turn
\* count, history, form state and form data
Stored(sm, session_id) ==
    [query_count |-> IF is_session_valid(sm, session_id)
                     THEN query_count(sm, session_id) ELSE -1,
     history |-> get_session_history(sm, session_id, NoLimit),
     state |-> get_contact_form_state(sm, session_id),
     data |-> get_contact_form_data(sm, session_id)]

\* update_session_activity as documented, from `sm` to `after`
ActivityUpdated(sm, after, session_id, result) ==
    IF is_session_valid(sm, session_id)
    THEN /\ result = TRUE
         /\ Stored(after, session_id)
               = [Stored(sm, session_id) EXCEPT !.query_count = @ + 1]
    ELSE /\ result = FALSE
         /\ after = sm

MostRecent(history, k) ==
    LET n == IF k < Len(history) THEN k ELSE Len(history) IN
    [i \in 1..n |-> history[Len(history) - n + i]]

\* get_session_history after an append, as documented
Appended(sm, after, session_id, entry) ==
    LET history == get_session_history(after, session_id, NoLimit) IN
    /\ history = Append(get_session_history(sm, session_id, NoLimit), entry)
    /\ \A k \in 1..(MaxHistory + 1) :
          get_session_history(after, session_id, k) = MostRecent(history, k)

\* C20: each append_message_to_history adds its message at the end of
\* what get_session_history returns, so N appends are returned in append
\* order, and with a limit k > 0 the last min(k, N) of them are returned,
\* oldest first.
C20_HistoryOrder ==
    [][(last'.op = "append_message_to_history" /\ session_manager.redis_reachable)
       => LET entry == HistoryEntry(last'.argument[1], last'.argument[2]) IN
          /\ Appended(session_manager, session_manager', last'.session_id, entry)
          /\ Appended(memory_manager, memory_manager', last'.session_id, entry)]_vars

\* Three messages appended, the first of them "J" from the user and the
\* last the bot's: the limit 2 leaves the first out
C20_Witness ==
    /\ last.op = "append_message_to_history" /\ last.argument = <<"bot", In_Query>>
    /\ Len(get_session_history(session_manager, last.session_id, NoLimit)) = 3
    /\ get_session_history(session_manager, last.session_id, NoLimit)[1]
          = HistoryEntry("user", In_X)
    /\ get_session_history(session_manager, last.session_id, 2)
          = SubSeq(get_session_history(session_manager, last.session_id, NoLimit), 2, 3)
    /\ get_session_history(memory_manager, last.session_id, 2)[2] = HistoryEntry("bot", In_Query)

-----------------------------------------------------------------------------
(* Messages for sessions the store does not know: the id was never        *)
(* returned by create_session, or Redis stopped answering                  *)

MaxKnownTurns == 2
MaxLostHistory == 4
LostInputs == {In_Name, In_Connect, In_Query}

LostEnvs == {Env_NoDocs, Env_Contact}

KnownTurn == Turn(MaxKnownTurns, {In_Name, In_X}, LostEnvs)

\* One message with the id of a session is_session_valid does not know
LostTurn ==
    \E session_id \in issued \cup NeverIssued :
        /\ ~is_session_valid(session_manager, session_id)
        /\ Len(get_session_history(session_manager, session_id, NoLimit)) < MaxLostHistory
        /\ \E user_input \in LostInputs,
              env \in TurnEnvs(get_contact_form_state(session_manager, session_id),
                               LostEnvs) :
              \E after \in {turn(session_manager, contact_requests, mongodb_client,
                                  user_input, session_id, env)} :
                 /\ session_manager' = after.sm
                 /\ contact_requests' = after.db
                 /\ last' = after.last
        /\ UNCHANGED <<mongodb_client, sessions, issued, memory_manager, front_end>>

NextLost == StartSession \/ KnownTurn \/ RedisFails \/ LostTurn

SpecLost == Init /\ [][NextLost]_vars

\* C19: a process_message call for a session update_session_activity
\* does not know stops there: the store is left as it was (nothing is
\* appended to the history, no form state or data is written) and the
\* input is routed neither to the contact form nor to the classifier.
C19_UnknownSessionRefused ==
    [][(last'.op = "process_message"
          /\ ~update_session_activity(session_manager, last'.session_id).ok)
       => /\ session_manager' = session_manager
          /\ last'.route \notin {"contact_form", "agent"}
          /\ last'.agent = NoAgent]_vars

-----------------------------------------------------------------------------
(* text_to_voice_server.py: the Socket.IO front end.  Event handlers run   *)
(* on the event loop, one at a time between two awaits; each              *)
(* process_message call runs on a thread of the default executor, and the *)
(* threads run the lines of process_message concurrently.  A handler is   *)
(* taken here without another handler running between its awaits, and a   *)
(* call in two steps: up to the form state and form data it reads (lines  *)
(* 113-127 of chatbot.py), and the rest.                                   *)

ServerSids == {"c1", "c2"}
ServerSessionIds == {"s1", "s2"}
ServerInputs == {In_Name, In_Email}
ServerEnvs == {Env_NoDocs}

MaxQueries == 2
\* The chunks text_to_speech_stream yields for a response
AudioChunks == 1

NoTask == 0

\* A query being answered.  pc is where its coroutine stands: "executor"
\* awaiting run_in_executor, "respond" after the text response, "stream"
\* in stream_audio_to_client, "done", "cancelled".  call is where the
\* process_message call stands on its thread: "queued", "started" (it has
\* read form_state and form_data), "returned", or "dropped" (cancelled
\* before a thread took it).
ResponseTask(sid, kind, query_text, session_id) ==
    [sid |-> sid, kind |-> kind, query_text |-> query_text, session_id |-> session_id,
     pc |-> "executor", call |-> "queued", form_state |-> "", form_data |-> EmptyDict,
     response |-> <<>>, chunks |-> 0]

Event(event, task) == [event |-> event, task |-> task]

\* sio.emit(event, ..., room=sid), for each of `events` in order
Emitted(sid, events) == DictSet(emitted, sid, DictGet(emitted, sid, <<>>) \o events)

ServerCall(op, sid, session_id, task) ==
    [op |-> op, sid |-> sid, session_id |-> session_id, task |-> task]

\* connect(sid)
Connect ==
    \E sid \in ServerSids \ DOMAIN clients, session_id \in ServerSessionIds \ issued :
        \E opened \in {start_session(session_manager, contact_requests, session_id)} :
            /\ session_manager' = opened.sm
            /\ issued' = issued \cup {session_id}
            /\ clients' = DictSet(clients, sid, session_id)
            /\ active_responses' = DictSet(active_responses, sid,
                                           [task |-> NoTask, interrupted |-> FALSE])
            /\ emitted' = Emitted(sid, <<Event("status", NoTask),
                                         Event("text_response", NoTask)>>)
            /\ last' = ServerCall("connect", sid, session_id, NoTask)
            /\ UNCHANGED <<mongodb_client, sessions, contact_requests, memory_manager, tasks>>

\* text_query(sid, data): the response in flight is interrupted, and a
\* task is created for the new query
TextQuery ==
    \E sid \in DOMAIN clients, query_text \in ServerInputs :
        LET previous == active_responses[sid].task
            interrupts == previous # NoTask
            cancels == interrupts /\ tasks[previous].pc \notin {"done", "cancelled"}
            cancelled == IF cancels
                         THEN [tasks EXCEPT ![previous].pc = "cancelled",
                                            ![previous].call =
                                                IF @ = "queued" THEN "dropped" ELSE @]
                         ELSE tasks
            signals == (IF cancels /\ tasks[previous].pc = "stream"
                        THEN <<Event("audio_interrupted", previous)>> ELSE <<>>)
                       \o (IF interrupts
                           THEN <<Event("response_interrupted", previous)>> ELSE <<>>)
            task == Len(tasks) + 1
        IN
        /\ Len(tasks) < MaxQueries
        /\ IF strip(query_text) = <<>>
           THEN /\ tasks' = cancelled
                /\ active_responses' =
                      [active_responses EXCEPT ![sid].interrupted = interrupts \/ @]
                /\ emitted' = Emitted(sid, signals \o <<Event("error", NoTask)>>)
                /\ last' = ServerCall("text_query", sid, clients[sid], NoTask)
           ELSE /\ tasks' = Append(cancelled,
                                   ResponseTask(sid, "text_query", query_text, clients[sid]))
                /\ active_responses' =
                      [active_responses EXCEPT ![sid] = [task |-> task,
                                                         interrupted |-> FALSE]]
                /\ emitted' = Emitted(sid, signals \o <<Event("query_received", task)>>)
                /\ last' = ServerCall("text_query", sid, clients[sid], task)
        /\ UNCHANGED <<session_manager, mongodb_client, sessions, contact_requests, issued,
                       memory_manager, clients>>

\* text_only_query(sid, data)
TextOnlyQuery ==
    \E sid \in DOMAIN clients, query_text \in ServerInputs :
        LET task == Len(tasks) + 1 IN
        /\ Len(tasks) < MaxQueries
        /\ IF strip(query_text) = <<>>
           THEN /\ emitted' = Emitted(sid, <<Event("error_response", NoTask)>>)
                /\ last' = ServerCall("text_only_query", sid, clients[sid], NoTask)
                /\ UNCHANGED tasks
           ELSE /\ tasks' = Append(tasks, ResponseTask(sid, "text_only_query", query_text,
                                                       clients[sid]))
                /\ last' = ServerCall("text_only_query", sid, clients[sid], task)
                /\ UNCHANGED emitted
        /\ UNCHANGED <<session_manager, mongodb_client, sessions, contact_requests, issued,
                       memory_manager, clients, active_responses>>

\* A thread of the executor takes the call and runs process_message up to
\* the form state and the form data
CallBegins ==
    \E task \in DOMAIN tasks :
        /\ tasks[task].call = "queued"
        /\ \E begun \in {process_message_begin(session_manager, tasks[task].query_text,
                                               tasks[task].session_id)} :
              /\ session_manager' = begun.sm
              /\ tasks' = [tasks EXCEPT ![task].call = "started",
                                        ![task].form_state = begun.form_state,
                                        ![task].form_data = begun.form_data]
        /\ last' = ServerCall("process_message", tasks[task].sid, tasks[task].session_id, task)
        /\ UNCHANGED <<mongodb_client, sessions, contact_requests, issued, memory_manager, clients,
                       active_responses, emitted>>

\* The thread runs the rest of process_message and the call returns
CallReturns ==
    \E task \in DOMAIN tasks :
        /\ tasks[task].call = "started"
        /\ \E env \in TurnEnvs(tasks[task].form_state, ServerEnvs) :
           \E finished \in {process_message_finish(
                                session_manager, contact_requests, mongodb_client,
                                tasks[task].query_text, tasks[task].session_id,
                                tasks[task].form_state, tasks[task].form_data, env)} :
              /\ session_manager' = finished.sm
              /\ contact_requests' = finished.db
              /\ tasks' = [tasks EXCEPT ![task].call = "returned",
                                        ![task].response = finished.response]
        /\ last' = ServerCall("process_message", tasks[task].sid, tasks[task].session_id, task)
        /\ UNCHANGED <<mongodb_client, sessions, issued, memory_manager, clients, active_responses,
                       emitted>>

\* The coroutine resumes with the response: text_only_query sends it;
\* process_and_respond sends it unless the response was interrupted.
\* active_responses[sid] of a client that has disconnected raises KeyError,
\* which process_and_respond reports with an error event.
Responds ==
    \E task \in DOMAIN tasks :
        LET sid == tasks[task].sid IN
        /\ tasks[task].pc = "executor" /\ tasks[task].call = "returned"
        /\ IF tasks[task].kind = "text_query" /\ sid \notin DOMAIN active_responses
           THEN /\ tasks' = [tasks EXCEPT ![task].pc = "done"]
                /\ emitted' = Emitted(sid, <<Event("error", task)>>)
           ELSE IF tasks[task].kind = "text_query" /\ active_responses[sid].interrupted
           THEN /\ tasks' = [tasks EXCEPT ![task].pc = "done"]
                /\ UNCHANGED emitted
           ELSE /\ tasks' = [tasks EXCEPT ![task].pc =
                                IF tasks[task].kind = "text_query" THEN "respond" ELSE "done"]
                /\ emitted' = Emitted(sid, <<Event("text_response", task)>>)
        /\ last' = ServerCall("respond", sid, tasks[task].session_id, task)
        /\ UNCHANGED <<session_manager, mongodb_client, sessions, contact_requests, issued,
                       memory_manager, clients, active_responses>>

\* process_and_respond goes on to stream_audio_to_client, which sends the
\* chunks one by one; text_to_speech_stream yields the next chunk or
\* raises
StreamsAudio ==
    \E task \in DOMAIN tasks, tts_raises \in BOOLEAN :
        LET sid == tasks[task].sid
            tracked == sid \in DOMAIN active_responses
            interrupted == tracked /\ active_responses[sid].interrupted
        IN
        /\ tasks[task].pc \in {"respond", "stream"}
        /\ tts_raises => (tasks[task].pc = "stream" /\ tasks[task].chunks < AudioChunks)
        /\ IF tasks[task].pc = "respond"
           THEN IF ~tracked
                THEN /\ tasks' = [tasks EXCEPT ![task].pc = "done"]
                     /\ emitted' = Emitted(sid, <<Event("error", task)>>)
                ELSE IF interrupted
                THEN /\ tasks' = [tasks EXCEPT ![task].pc = "done"]
                     /\ UNCHANGED emitted
                ELSE /\ tasks' = [tasks EXCEPT ![task].pc = "stream"]
                     /\ emitted' = Emitted(sid, <<Event("audio_start", task)>>)
           ELSE IF tasks[task].chunks < AudioChunks
                THEN IF tts_raises
                     THEN /\ tasks' = [tasks EXCEPT ![task].pc = "done"]
                          /\ emitted' = Emitted(sid, <<Event("error", task)>>)
                     ELSE IF interrupted
                     THEN /\ tasks' = [tasks EXCEPT ![task].pc = "done"]
                          /\ emitted' = Emitted(sid, <<Event("audio_interrupted", task)>>)
                     ELSE /\ tasks' = [tasks EXCEPT ![task].chunks = @ + 1]
                          /\ emitted' = Emitted(sid, <<Event("audio_chunk", task)>>)
                ELSE /\ tasks' = [tasks EXCEPT ![task].pc = "done"]
                     /\ emitted' = IF tracked /\ ~interrupted
                                   THEN Emitted(sid, <<Event("audio_end", task)>>)
                                   ELSE emitted
        /\ last' = ServerCall("stream_audio_to_client", sid, tasks[task].session_id, task)
        /\ UNCHANGED <<session_manager, mongodb_client, sessions, contact_requests, issued,
                       memory_manager, clients, active_responses>>

NextServer ==
    \/ Connect
    \/ TextQuery
    \/ TextOnlyQuery
    \/ CallBegins
    \/ CallReturns
    \/ Responds
    \/ StreamsAudio

SpecServer == Init /\ [][NextServer]_vars

-----------------------------------------------------------------------------
(* Properties of the front end (SpecServer)                                *)

\* C13: no two process_message calls for the same session are in
\* progress at the same time.
C13_TurnsSequential ==
    \A first \in DOMAIN tasks, second \in DOMAIN tasks :
        (first # second /\ tasks[first].session_id = tasks[second].session_id)
        => ~(tasks[first].call = "started" /\ tasks[second].call = "started")

\* Two accepted values, one kept: both calls read initial_collecting_name
\* before either wrote, each validated its message as a name, and the
\* store holds one name and the state initial_collecting_email
LostUpdate ==
    /\ Len(tasks) = 2
    /\ \A task \in DOMAIN tasks :
          /\ tasks[task].session_id = "s1" /\ tasks[task].call = "returned"
          /\ tasks[task].form_state = INITIAL_COLLECTING_NAME
    /\ tasks[1].query_text # tasks[2].query_text
    /\ StoredState("s1") = INITIAL_COLLECTING_EMAIL
    /\ DOMAIN StoredData("s1") = {"name"}

\* The events sent to `sid` after the first `event` about `task`
EmittedAfter(sid, event, task) ==
    LET events == DictGet(emitted, sid, <<>>)
        at == {i \in DOMAIN events : events[i] = Event(event, task)}
    IN IF at = {} THEN <<>>
       ELSE SubSeq(events, (CHOOSE i \in at : \A j \in at : i <= j) + 1, Len(events))

\* C14: when a text_query interrupts a response whose process_message
\* call had begun, the stored form state and form data are those the
\* interrupted call read (its transition counts as not applied), the call
\* writes nothing to the store afterwards, and no audio chunk of the
\* interrupted response is sent after the interruption.
C14_InterruptedTurnNotApplied ==
    [][\A task \in DOMAIN tasks :
          /\ (tasks[task].pc # "cancelled" /\ tasks'[task].pc = "cancelled"
                /\ tasks[task].call \in {"started", "returned"})
             => /\ get_contact_form_state(session_manager', tasks[task].session_id)
                      = tasks[task].form_state
                /\ tasks[task].form_state # IDLE
                      => get_contact_form_data(session_manager', tasks[task].session_id)
                            = tasks[task].form_data
          /\ (tasks[task].pc = "cancelled" /\ tasks[task].call = "started"
                /\ tasks'[task].call = "returned")
             => session_manager' = session_manager
          /\ \A i \in DOMAIN EmittedAfter(tasks[task].sid, "response_interrupted", task)' :
                EmittedAfter(tasks[task].sid, "response_interrupted", task)'[i]
                   # Event("audio_chunk", task)]_vars

AllSessionIds == ServerSessionIds \cup NeverIssued

\* C15: a step taken for one session (a session-store call, connect, a
\* step of a process_message call, a response) leaves the metadata,
\* history, form state and form data of every other session as they were,
\* however the calls of concurrent clients interleave.  (The loss of the
\* Redis server is no call for a session and is left out.)
C15_SessionIsolation ==
    [][\A other \in AllSessionIds :
          (other # last'.session_id /\ last'.op # "redis_fails")
          => /\ Stored(session_manager', other) = Stored(session_manager, other)
             /\ get_session_info(session_manager', other)
                   = get_session_info(session_manager, other)]_vars

\* Two clients: the call for s1 has returned and moved s1 on while the
\* call for s2 is still between its read and its write
C15_Witness ==
    /\ last.op = "process_message" /\ last.session_id = "s1"
    /\ StoredState("s1") = INITIAL_COLLECTING_EMAIL
    /\ StoredState("s2") = INITIAL_COLLECTING_NAME
    /\ \E task \in DOMAIN tasks :
          tasks[task].session_id = "s2" /\ tasks[task].call = "started"

-----------------------------------------------------------------------------
(* Long histories: entries are appended to the history of one session and *)
(* get_last_user_query is called on it, on both managers (SpecQuery)       *)

MaxQueryHistory == 21
\* The messages of the user entries, in the order they are appended
QueryMessages == <<In_Query, In_Connect>>

UserEntries(sm, session_id) ==
    Len(UserMessages(get_session_history(sm, session_id, NoLimit)))

\* append_message_to_history(session_id, 'user', message)
AppendUserEntry ==
    \E session_id \in issued :
        /\ Len(get_session_history(session_manager, session_id, NoLimit)) < MaxQueryHistory
        /\ UserEntries(session_manager, session_id) < Len(QueryMessages)
        /\ \E message \in {QueryMessages[UserEntries(session_manager, session_id) + 1]} :
              Called("append_message_to_history", session_id, <<"user", message>>,
                     append_message_to_history(session_manager, session_id, "user", message),
                     returns_true(session_manager),
                     append_message_to_history(memory_manager, session_id, "user", message),
                     returns_true(memory_manager))
        /\ UNCHANGED issued

\* append_message_to_history(session_id, 'bot', message)
AppendBotEntry ==
    \E session_id \in issued :
        /\ Len(get_session_history(session_manager, session_id, NoLimit)) < MaxQueryHistory
        /\ Called("append_message_to_history", session_id, <<"bot", WelcomeMessage>>,
                  append_message_to_history(session_manager, session_id, "bot", WelcomeMessage),
                  returns_true(session_manager),
                  append_message_to_history(memory_manager, session_id, "bot", WelcomeMessage),
                  returns_true(memory_manager))
        /\ UNCHANGED issued

\* get_last_user_query(session_id, skip_current)
GetLastUserQuery ==
    \E session_id \in issued, skip_current \in BOOLEAN :
        /\ Called("get_last_user_query", session_id, <<skip_current>>,
                  session_manager,
                  get_last_user_query(session_manager, session_id, skip_current),
                  memory_manager,
                  get_last_user_query(memory_manager, session_id, skip_current))
        /\ UNCHANGED issued

NextQuery == CreateSession \/ AppendUserEntry \/ AppendBotEntry \/ GetLastUserQuery

SpecQuery == InitStore /\ [][NextQuery]_vars

\* The message of the n-th most recent user entry, None when there are
\* fewer than n
NthLatestUser(history, n) ==
    LET users == UserMessages(history) IN
    IF Len(users) < n THEN None ELSE users[Len(users) - n + 1]

\* C21: get_last_user_query returns the message of the most recent user
\* entry of the history, with skip_current the message of the second most
\* recent one, and None when the history has no such entry; on both
\* managers.
C21_LastUserQuery ==
    last.op = "get_last_user_query"
    => LET n == IF last.argument[1] THEN 2 ELSE 1 IN
       /\ last.result
             = NthLatestUser(get_session_history(session_manager, last.session_id, NoLimit), n)
       /\ last.memory_result
             = NthLatestUser(get_session_history(memory_manager, last.session_id, NoLimit), n)

\* The same for the histories of at most LastUserQueryLimit entries
QueryWithinLimit ==
    (/\ last.op = "get_last_user_query"
     /\ Len(get_session_history(session_manager, last.session_id, NoLimit))
           <= LastUserQueryLimit)
    => LET n == IF last.argument[1] THEN 2 ELSE 1 IN
       /\ last.result
             = NthLatestUser(get_session_history(session_manager, last.session_id, NoLimit), n)
       /\ last.memory_result
             = NthLatestUser(get_session_history(memory_manager, last.session_id, NoLimit), n)

-----------------------------------------------------------------------------
(* Expiry: the writing methods of SessionManager are called and time       *)
(* passes, on a manager connected to Redis and on an in-memory manager     *)
(* given the same calls (SpecExpiry)                                       *)

\* Time steps without a call in between, as `last` counts them
Idle == IF last.op = "time_passes" THEN last.idle ELSE 0

\* A time step in which no method is called
TimePasses ==
    /\ Idle < SessionTimeout
    /\ session_manager' = time_passes(session_manager)
    /\ memory_manager' = time_passes(memory_manager)
    /\ last' = [op |-> "time_passes", session_id |-> "", idle |-> Idle + 1]
    /\ UNCHANGED <<mongodb_client, sessions, contact_requests, issued, front_end>>

NextExpiry ==
    \/ CreateSession
    \/ UpdateSessionActivity
    \/ AppendMessageToHistory
    \/ SetContactFormState
    \/ SetContactFormData
    \/ TimePasses

SpecExpiry == InitStore /\ [][NextExpiry]_vars

\* The keys a successful call of `op` writes
KeysWritten(op, session_id) ==
    CASE op = "create_session" -> {SessionKey(session_id), StateKey(session_id)}
      [] op = "update_session_activity" -> {SessionKey(session_id)}
      [] op = "append_message_to_history" -> {HistoryKey(session_id)}
      [] op = "set_contact_form_state" -> {StateKey(session_id)}
      [] op = "set_contact_form_data" -> {DataKey(session_id)}
      [] OTHER -> {}

\* The call recorded in `last` wrote, and each key it wrote has the full
\* session timeout to live
Refreshed(sm, call) ==
    (call.op # "update_session_activity" \/ call.result)
    => \A key \in KeysWritten(call.op, call.session_id) :
          key \in DOMAIN sm.ttl /\ sm.ttl[key] = SessionTimeout

\* Nothing of the session can be reached
Unreachable(sm, session_id) ==
    /\ Observed(sm, session_id) = Absent
    /\ ~update_session_activity(sm, session_id).ok

\* C22: every write to a key of a session gives the key the full session
\* timeout to live again, and once the timeout has passed without a call,
\* every session is unreachable in whichever backend holds it:
\* is_session_valid and update_session_activity return false, the history
\* is empty, the form state reads idle and the form data reads empty.
C22_Expiry ==
    [][/\ Refreshed(session_manager', last')
       /\ (last'.op = "time_passes" /\ last'.idle >= SessionTimeout)
          => \A session_id \in issued :
                /\ Unreachable(session_manager', session_id)
                /\ Unreachable(memory_manager', session_id)]_vars

\* The same of the manager connected to Redis alone
ExpiryOnRedis ==
    [][/\ Refreshed(session_manager', last')
       /\ (last'.op = "time_passes" /\ last'.idle >= SessionTimeout)
          => \A session_id \in issued : Unreachable(session_manager', session_id)]_vars

\* A session written to on Redis, a time step short of its timeout
AboutToExpire ==
    /\ last.op = "time_passes" /\ last.idle = SessionTimeout - 1
    /\ \E session_id \in issued :
          /\ is_session_valid(session_manager, session_id)
          /\ Len(get_session_history(session_manager, session_id, NoLimit)) > 0
          /\ get_contact_form_data(session_manager, session_id) # EmptyDict

-----------------------------------------------------------------------------
(* Failing collaborators: one message to a session in its first form      *)
(* state, idle, or collecting the timezone, while any of the classifier,  *)
(* the generator, the vector store, the re-ranker, the Mongo server and   *)
(* Redis fail; and a message without a session id (SpecFail)              *)

ToIdle == <<Said(In_Name, NoEnv), Said(In_Email, NoEnv), Said(In_Phone, NoEnv)>>
ToTimezone == ToIdle \o <<Said(In_Connect, Env_Contact), Said(In_Email, NoEnv)>>

FailScripts == {<<>>, ToIdle, ToTimezone}

FailInputs == {In_Blank, In_Name, In_Query}

\* What the classifier and the generator can do: raise, or answer
FailClassifiers ==
    {Raises, Reply(<<"G","R","E","E","T","I","N","G">>), Reply(<<"Q","U","E","R","Y">>),
     Reply(<<"F","O","L","L","O","W","U","P">>)}
FailGenerations == {Raises, Reply(<<>>), Reply(T_Answer)}

FailEnvs ==
    {MakeEnv(classifier, llm, retrieval, reranker, 1, "ok") :
        classifier \in FailClassifiers, llm \in FailGenerations,
        retrieval \in {StoreDown, Found(<<D_Good>>)}, reranker \in {"raises", "ok"}}

FailOpening == OpeningTurn(FailScripts)

\* A message can be sent: to a session that has received exactly one of
\* FailScripts; to a session while Redis does not answer; without a
\* session id
ReadyToFail(session_id) ==
    \/ /\ session_id \in issued
       /\ is_session_valid(session_manager, session_id)
       /\ \E script \in FailScripts :
             /\ query_count(session_manager, session_id) = Len(script)
             /\ Following(script, session_id)
    \/ /\ session_id \in issued
       /\ session_manager.redis_available /\ redis_raises(session_manager)
       /\ last.op # "process_message"
    \/ /\ session_id = ""
       /\ last.op # "process_message"

\* process_message(user_input, session_id) with the collaborators doing
\* any of FailEnvs
FailTurn ==
    \E session_id \in issued \cup {""} :
        /\ ReadyToFail(session_id)
        /\ \E user_input \in FailInputs,
              env \in IF session_id = "" THEN {NoEnv}
                      ELSE TurnEnvs(get_contact_form_state(session_manager, session_id),
                                    FailEnvs) :
              \E after \in {turn(session_manager, contact_requests, mongodb_client,
                                  user_input, session_id, env)} :
                 /\ session_manager' = after.sm
                 /\ contact_requests' = after.db
                 /\ last' = after.last
        /\ UNCHANGED <<mongodb_client, sessions, issued, memory_manager, front_end>>

NextFail == StartSession \/ FailOpening \/ RedisFails \/ FailTurn

SpecFail == Init /\ [][NextFail]_vars

\* The fixed texts returned when a turn could not be processed
Apologies ==
    {MessageErrorApology, ProcessErrorApology, GenerationErrorApology, TechnicalApology,
     FollowupLlmError, FollowupErrorApology}

\* The session is as it was: not cleared, form state and form data kept
LeftIntact(session_id) ==
    /\ is_session_valid(session_manager', session_id)
          = is_session_valid(session_manager, session_id)
    /\ get_contact_form_state(session_manager', session_id)
          = get_contact_form_state(session_manager, session_id)
    /\ get_contact_form_data(session_manager', session_id)
          = get_contact_form_data(session_manager, session_id)

\* C23: whatever the input, the state of the session and the collaborators
\* that fail, process_message returns a text that is not empty, and when
\* the text is an apology for an error the session is as before the call.
\* (The model has no outcome in which the call raises: the body of
\* process_message is one try block with an except Exception branch.)
C23_TurnBoundary ==
    [][last'.op = "process_message"
       => /\ last'.response # <<>>
          /\ last'.response \in Apologies => LeftIntact(last'.session_id)]_vars

\* The same for the turns whose generator raised or returned a text
TurnBoundaryUnlessBlank ==
    [][(last'.op = "process_message" /\ last'.env.llm # Reply(<<>>))
       => /\ last'.response # <<>>
          /\ last'.response \in Apologies => LeftIntact(last'.session_id)]_vars

\* An idle turn answered with an apology; a turn without a session id; a
\* turn while Redis does not answer
ApologyReturned ==
    /\ last.op = "process_message" /\ last.session_id # ""
    /\ last.response \in Apologies
    /\ last.form_state = IDLE
NoSessionApology ==
    /\ last.op = "process_message" /\ last.session_id = ""
    /\ last.response = MessageErrorApology
AnsweredInOutage ==
    /\ last.op = "process_message" /\ last.session_id # ""
    /\ session_manager.redis_available /\ redis_raises(session_manager)
    /\ last.response # <<>>

-----------------------------------------------------------------------------
(* The transport contract of the front ends                                *)

\* The positions in what `sid` was sent of the events of `kinds` about
\* `task`
EventsOf(sid, kinds, task) ==
    LET events == DictGet(emitted, sid, <<>>) IN
    {i \in DOMAIN events : events[i].task = task /\ events[i].event \in kinds}

\* The events that end a turn: the response or an error
Terminal == {"text_response", "bot_response", "error"}

\* query_received was sent first, at most one terminal event after it,
\* and exactly one once the turn is over
OneTerminalEvent(sid, task, over) ==
    LET received == EventsOf(sid, {"query_received"}, task)
        terminal == EventsOf(sid, Terminal, task)
    IN /\ Cardinality(received) = 1
       /\ Cardinality(terminal) <= 1
       /\ \A i \in received, j \in terminal : i < j
       /\ over => Cardinality(terminal) = 1

\* C24: for every text_query with a non-empty message the client is sent
\* query_received first and then exactly one terminal event, the response
\* or an error: never both, and never none once the turn is over, also
\* when the turn is interrupted or its audio streaming fails.
C24_OneTerminalEvent ==
    \A task \in DOMAIN tasks :
        tasks[task].kind = "text_query"
        => OneTerminalEvent(tasks[task].sid, task, tasks[task].pc \in {"done", "cancelled"})

\* The same for the turns that are neither interrupted nor fail to stream
TerminalUnlessInterrupted ==
    \A task \in DOMAIN tasks :
        (/\ tasks[task].kind = "text_query"
         /\ EventsOf(tasks[task].sid, {"response_interrupted"}, task) = {}
         /\ \/ EventsOf(tasks[task].sid, {"audio_start"}, task) = {}
            \/ EventsOf(tasks[task].sid, {"error"}, task) = {})
        => OneTerminalEvent(tasks[task].sid, task, tasks[task].pc \in {"done", "cancelled"})

\* A turn interrupted before its response: its task is over and no
\* terminal event was sent for it
InterruptedUnanswered ==
    \E task \in DOMAIN tasks :
        /\ tasks[task].kind = "text_query" /\ tasks[task].pc = "cancelled"
        /\ EventsOf(tasks[task].sid, Terminal, task) = {}

\* A turn whose audio failed: the response and an error were both sent
AnsweredTwice ==
    \E task \in DOMAIN tasks :
        /\ EventsOf(tasks[task].sid, {"text_response"}, task) # {}
        /\ EventsOf(tasks[task].sid, {"error"}, task) # {}

(* socket_server.py: the raw-socket front end, one client                  *)

SocketClient == "r1"
MaxSocketQueries == 3
SocketInputs == {In_Blank, In_Name, In_Query}

\* The turns of the client so far
SocketTurns == Cardinality({i \in DOMAIN DictGet(emitted, SocketClient, <<>>) :
                               emitted[SocketClient][i].event = "query_received"})

\* handle_user_query(client_socket, data, client_id): an empty message is
\* refused; otherwise the message is acknowledged, get_chatbot() starts
\* the session of the process on its first call, and
\* chatbot.process_message(user_message) raises TypeError, session_id
\* being a required argument: the except branch sends the error
HandleUserQuery ==
    \E user_message \in SocketInputs :
        LET turn_id == SocketTurns + 1 IN
        /\ Len(DictGet(emitted, SocketClient, <<>>)) < 2 * MaxSocketQueries
        /\ IF strip(user_message) = <<>>
           THEN /\ emitted' = Emitted(SocketClient, <<Event("error", NoTask)>>)
                /\ last' = ServerCall("user_query", SocketClient, "", NoTask)
                /\ UNCHANGED <<session_manager, issued>>
           ELSE /\ emitted' = Emitted(SocketClient, <<Event("query_received", turn_id),
                                                      Event("error", turn_id)>>)
                /\ last' = ServerCall("user_query", SocketClient, "", turn_id)
                /\ IF issued = {}
                   THEN \E session_id \in SessionIds :
                           /\ session_manager' = create_session(session_manager, session_id)
                           /\ issued' = {session_id}
                   ELSE UNCHANGED <<session_manager, issued>>
        /\ UNCHANGED <<mongodb_client, sessions, contact_requests, memory_manager, clients,
                       active_responses, tasks>>

SpecSocket == Init /\ [][HandleUserQuery]_vars

\* Every turn of the raw-socket client got query_received and then
\* exactly one terminal event, the error
SocketOneTerminalEvent ==
    \A turn_id \in 1..SocketTurns :
        /\ OneTerminalEvent(SocketClient, turn_id, TRUE)
        /\ EventsOf(SocketClient, {"bot_response"}, turn_id) = {}

-----------------------------------------------------------------------------
(* classify_intent on its own: one call, on any of the messages below,    *)
(* the classification call answering any of the texts below or raising    *)
(* (SpecClassify)                                                          *)

\* The category names the prompt asks the model to answer with
CategoryNames ==
    <<<<"G","R","E","E","T","I","N","G">>,
      <<"C","A","S","U","A","L","_","C","H","A","T">>,
      <<"F","O","L","L","O","W","U","P">>,
      <<"C","O","N","T","A","C","T","_","R","E","Q","U","E","S","T">>,
      <<"Q","U","E","R","Y">>,
      <<"G","O","O","D","B","Y","E">>,
      <<"U","N","C","L","E","A","R">>>>

\* What the classification call answers: nothing, a name, a name in lower
\* case between blanks, or two names
ClassifierAnswers ==
    {<<>>}
    \cup {CategoryNames[i] : i \in DOMAIN CategoryNames}
    \cup {<<" ">> \o lower(CategoryNames[i]) \o <<"\n">> : i \in DOMAIN CategoryNames}
    \cup {CategoryNames[i] \o <<" ">> \o CategoryNames[j] :
             i \in DOMAIN CategoryNames, j \in DOMAIN CategoryNames}

In_PleaseConnect == <<"p","l","e","a","s","e"," ","c","o","n","n","e","c","t"," ","m","e"," ","w","i","t","h"," ","s","o","m","e","o","n","e">>
In_ThanksAll == <<"t","h","a","n","k","s",","," ","t","h","a","t","'","s"," ","a","l","l">>
In_HiCallMe == <<"H","i",","," ","c","a","l","l"," ","m","e">>
In_HeyThanks == <<"h","e","y"," ","t","h","a","n","k","s">>
In_ThanksUpper == <<"T","H","A","N","K","S">>
In_This == <<"t","h","i","s">>

ClassifyInputs ==
    {<<>>, In_Blank, In_Query, In_Email, In_PleaseConnect, In_ThanksAll, In_HiCallMe,
     In_HeyThanks, In_ThanksUpper, In_This}

Classified(user_input, llm, intent) ==
    [op |-> "classify_intent", session_id |-> "", user_input |-> user_input,
     llm |-> llm, intent |-> intent]

\* classify_intent(user_input)
ClassifyIntent ==
    \E user_input \in ClassifyInputs,
       llm \in {Raises} \cup {Reply(answer) : answer \in ClassifierAnswers} :
        /\ last.op # "classify_intent"
        /\ last' = Classified(user_input, llm, classify_intent(user_input, llm))
        /\ UNCHANGED <<session_manager, mongodb_client, sessions, contact_requests, issued,
                       memory_manager, front_end>>

SpecClassify == Init /\ [][ClassifyIntent]_vars

\* The substrings looked for in the answer, in the order of the claim,
\* and the label of each
CategoryTokens ==
    <<<<"G","R","E","E","T","I","N","G">>,
      <<"C","A","S","U","A","L">>,
      <<"F","O","L","L","O","W","U","P">>,
      <<"C","O","N","T","A","C","T">>,
      <<"Q","U","E","R","Y">>,
      <<"G","O","O","D","B","Y","E">>>>
CategoryLabels == <<GREETING, CASUAL_CHAT, FOLLOWUP, CONTACT_REQUEST, QUERY, GOODBYE>>

\* C25: when the classification call answers, the label is that of the
\* first of GREETING, CASUAL, FOLLOWUP, CONTACT, QUERY, GOODBYE contained
\* in the upper-cased answer, and unclear when it contains none; an
\* answer with several of them gives the earliest in that order.
C25_PriorityOrder ==
    (last.op = "classify_intent" /\ ~last.llm.raises)
    => LET answer == upper(last.llm.content)
           present == {k \in DOMAIN CategoryTokens : Contains(answer, CategoryTokens[k])}
       IN IF present = {} THEN last.intent = UNCLEAR
          ELSE last.intent = CategoryLabels[CHOOSE k \in present : \A j \in present : k <= j]

\* An answer naming QUERY before GREETING is classified greeting
C25_Witness ==
    /\ last.op = "classify_intent" /\ ~last.llm.raises
    /\ last.llm.content = CategoryNames[5] \o <<" ">> \o CategoryNames[1]
    /\ last.intent = GREETING

Matches(user_input, phrases) ==
    \E phrase \in phrases : Contains(lower(user_input), phrase)

\* C26: when the classification call raises, the label depends on the
\* message alone: contact_request when it contains a contact phrase,
\* otherwise greeting when it contains a greeting word, otherwise goodbye
\* when it contains a goodbye phrase, otherwise query; never unclear,
\* casual_chat or followup.  'please connect me with someone' gives
\* contact_request and 'thanks, that's all' gives goodbye.
C26_KeywordFallback ==
    (last.op = "classify_intent" /\ last.llm.raises)
    => /\ last.intent \in {CONTACT_REQUEST, GREETING, GOODBYE, QUERY}
       /\ Matches(last.user_input, ContactRequestPhrases) => last.intent = CONTACT_REQUEST
       /\ (/\ ~Matches(last.user_input, ContactRequestPhrases)
           /\ Matches(last.user_input, GreetingWords)) => last.intent = GREETING
       /\ (/\ ~Matches(last.user_input, ContactRequestPhrases)
           /\ ~Matches(last.user_input, GreetingWords)
           /\ Matches(last.user_input, GoodbyePhrases)) => last.intent = GOODBYE
       /\ (/\ ~Matches(last.user_input, ContactRequestPhrases)
           /\ ~Matches(last.user_input, GreetingWords)
           /\ ~Matches(last.user_input, GoodbyePhrases)) => last.intent = QUERY
       /\ last.user_input = In_PleaseConnect => last.intent = CONTACT_REQUEST
       /\ last.user_input = In_ThanksAll => last.intent = GOODBYE

\* A message with a greeting word and a contact phrase is a contact
\* request
C26_Witness ==
    /\ last.op = "classify_intent" /\ last.llm.raises
    /\ last.user_input = In_HiCallMe
    /\ Matches(last.user_input, GreetingWords)
    /\ last.intent = CONTACT_REQUEST

-----------------------------------------------------------------------------
(* Idle turns of every intent, the generation call also answering the     *)
(* sentinel text itself (SpecIntent)                                       *)

Env_GreetingSentinel ==
    MakeEnv(Reply(<<"G","R","E","E","T","I","N","G">>), Reply(T_Sentinel), Found(<<>>), "none", 1, "ok")
Env_PartialAnswer ==
    MakeEnv(Reply(<<"q","u","e","r","y">>), Reply(T_Partial), Found(<<D_Good>>), "ok", 1, "ok")
Env_QuerySentinel ==
    MakeEnv(Reply(<<"q","u","e","r","y">>), Reply(T_Sentinel), Found(<<D_Good>>), "ok", 1, "ok")

IntentEnvs == AgentEnvs \cup {Env_GreetingSentinel, Env_PartialAnswer, Env_QuerySentinel}

IntentOpening == OpeningTurn(IdleScripts)

IntentTurn == LaterTurn(IdleScripts, MaxIdleTurns, IdleInputs, IntentEnvs)

NextIntent == StartSession \/ IntentOpening \/ IntentTurn

SpecIntent == Init /\ [][NextIntent]_vars

\* The intents answered without retrieval
ChatIntents == {GREETING, CASUAL_CHAT, GOODBYE, UNCLEAR}

\* The generated answer states a complete lack of information
CompleteFallback(llm) ==
    /\ ~llm.raises
    /\ \E t \in Range(strip(llm.content)) : t \in CompleteFallbackPhrases
    /\ ~\E t \in Range(strip(llm.content)) : t \in PartialInfoPhrases

\* C27: an idle turn classified greeting, casual_chat, goodbye or unclear
\* is marked non-cacheable and leaves the form state idle and the form
\* data unchanged; the state leaves idle only on a turn classified
\* contact_request or on a query for which no passage survives.
C27_OnlyNoPassageLeavesIdle ==
    [][(last'.op = "process_message" /\ last'.route = "agent")
       => LET session_id == last'.session_id
              intent == last'.agent.intent
          IN /\ intent \in ChatIntents
                => /\ ~last'.agent.needs_caching
                   /\ get_contact_form_state(session_manager', session_id) = IDLE
                   /\ get_contact_form_data(session_manager', session_id)
                         = get_contact_form_data(session_manager, session_id)
             /\ get_contact_form_state(session_manager', session_id) # IDLE
                => \/ classify_intent(last'.user_input, last'.env.classifier) = CONTACT_REQUEST
                   \/ intent = QUERY /\ NoPassageSurvives(last'.env.retrieval)]_vars

\* What the code does instead: greeting, casual_chat, goodbye and unclear
\* turns are non-cacheable; an idle turn leaves idle exactly when it is
\* classified contact_request or the agent's response is the sentinel text,
\* whatever the intent, and then the state becomes asking_consent; a turn
\* that stays idle leaves the form data unchanged; and a query with
\* surviving passages gets the sentinel exactly when the generated answer
\* states a complete lack of information or is the sentinel text itself.
SentinelLeavesIdle ==
    [][(last'.op = "process_message" /\ last'.route = "agent")
       => LET session_id == last'.session_id
              intent == last'.agent.intent
              contact == classify_intent(last'.user_input, last'.env.classifier) = CONTACT_REQUEST
              state == get_contact_form_state(session_manager', session_id)
          IN /\ intent \in ChatIntents => ~last'.agent.needs_caching
             /\ contact => state \in {COLLECTING_NAME, COLLECTING_DATETIME}
             /\ ~contact /\ last'.agent.response = TRIGGER_CONTACT_FORM => state = ASKING_CONSENT
             /\ ~contact /\ last'.agent.response # TRIGGER_CONTACT_FORM
                => /\ state = IDLE
                   /\ get_contact_form_data(session_manager', session_id)
                         = get_contact_form_data(session_manager, session_id)
             /\ (intent = QUERY /\ has_context_text(last'.agent.context_docs))
                => (last'.agent.response = TRIGGER_CONTACT_FORM
                    <=> \/ CompleteFallback(last'.env.llm)
                        \/ ~last'.env.llm.raises
                           /\ strip(last'.env.llm.content) = TRIGGER_CONTACT_FORM)]_vars

\* A query whose passage survived the filter was answered "I don't have
\* specific information ..." and the session is asked for consent
AnsweredNoInformation ==
    /\ last.op = "process_message" /\ last.route = "agent"
    /\ last.agent.intent = QUERY
    /\ ~NoPassageSurvives(last.env.retrieval)
    /\ last.agent.context_docs # <<>>
    /\ last.env.llm.content = T_NoInfo
    /\ StoredState(last.session_id) = ASKING_CONSENT

\* A greeting was answered and the session is still idle
GreetingStaysIdle ==
    /\ last.op = "process_message" /\ last.route = "agent"
    /\ last.agent.intent = GREETING /\ ~last.agent.needs_caching
    /\ last.agent.response # TRIGGER_CONTACT_FORM
    /\ StoredState(last.session_id) = IDLE

\* The greeting generated was the sentinel text and the session is asked
\* for consent
GreetingAsksConsent ==
    /\ last.op = "process_message" /\ last.route = "agent"
    /\ last.agent.intent = GREETING
    /\ StoredState(last.session_id) = ASKING_CONSENT

-----------------------------------------------------------------------------
(* Follow-ups: idle sessions that were asked a question, or none, before  *)
(* a turn classified followup (SpecFollowup)                               *)

In_More == <<"m","o","r","e">>
In_Hi == <<"H","i">>
In_QueryUpper == <<" ","P","R","I","C","E","?">>

Env_Answered ==
    MakeEnv(Reply(<<"q","u","e","r","y">>), Reply(T_Answer), Found(<<D_Good, D_Far>>), "ok", 1, "ok")
Env_Greeting ==
    MakeEnv(Reply(<<"g","r","e","e","t","i","n","g">>), Reply(T_Greeted), Found(<<>>), "none", 1, "ok")
Env_Followup ==
    MakeEnv(Reply(<<"f","o","l","l","o","w","u","p">>), Reply(T_Answer), Found(<<D_Good>>), "ok", 2, "ok")

\* The question was the last message; a greeting came after the question;
\* the question was followed by a refused consent; no question was asked
AfterQuestion ==
    <<Said(In_X, NoEnv), Said(In_Name, NoEnv), Said(In_Blank, NoEnv), Said(In_Email, NoEnv),
      Said(In_Phone, NoEnv), Said(In_Query, Env_Answered)>>
AfterGreeting ==
    <<Said(In_X, NoEnv), Said(In_Name, NoEnv), Said(In_Email, NoEnv), Said(In_Phone, NoEnv),
      Said(In_Query, Env_Answered), Said(In_Hi, Env_Greeting)>>

FollowupScripts == {AfterQuestion, AfterGreeting, IdleDeclined, IdleWithDetails}

FollowupInputs == {In_More, In_Query, In_QueryUpper, In_Hi}

FollowupEnvs ==
    {Env_Followup, Env_Answered,
     MakeEnv(Reply(<<"F","O","L","L","O","W","U","P">>), Raises, Found(<<D_Good>>), "none", 1, "ok"),
     MakeEnv(Reply(<<"f","o","l","l","o","w","u","p">>), Reply(T_Answer), StoreDown, "none", 1, "ok")}

FollowupOpening == OpeningTurn(FollowupScripts)

FollowupTurn == LaterTurn(FollowupScripts, MaxIdleTurns, FollowupInputs, FollowupEnvs)

NextFollowup == StartSession \/ FollowupOpening \/ FollowupTurn

SpecFollowup == Init /\ [][NextFollowup]_vars

\* The messages, among the first n messages of the session, that the
\* intent path handled as a question, oldest first: those of the script
\* the session followed whose turn was classified query or followup while
\* the form state was idle
EarlierQuestions(session_id, n) ==
    LET users == UserMessages(History(session_id))
        script == CHOOSE script \in FollowupScripts :
                      \A i \in 1..Len(script) : users[i] = script[i].user_input
        asked == SelectSeq(SubSeq(script, 1, n),
                           LAMBDA said : classify_intent(said.user_input, said.env.classifier)
                                             \in {QUERY, FOLLOWUP}
                                         /\ said.env # NoEnv)
    IN [i \in 1..Len(asked) |-> asked[i].user_input]

\* C28: on a turn classified followup the query retrieved on is built from
\* the most recent earlier user message that was handled as a question,
\* never from a message typed during a collection, and is the current
\* input only when no earlier question exists.
C28_FollowupQuery ==
    (/\ last.op = "process_message" /\ last.route = "agent"
     /\ last.agent.intent = FOLLOWUP
     /\ Len(UserMessages(History(last.session_id))) = Len(AfterQuestion) + 1)
    => LET questions == EarlierQuestions(last.session_id, Len(AfterQuestion))
       IN IF questions = <<>>
          THEN last.agent.retrieved_on = last.user_input
          ELSE last.agent.retrieved_on = questions[Len(questions)] \o ElaborateSuffix

\* What the code does instead: the query is built from the user message
\* before the current one, whatever it was, and is the current input when
\* that message is the input again, case and outer blanks ignored
FollowupFromPreviousMessage ==
    (/\ last.op = "process_message" /\ last.route = "agent"
     /\ last.agent.intent = FOLLOWUP
     /\ is_session_valid(session_manager, last.session_id))
    => LET users == UserMessages(History(last.session_id))
           previous == users[Len(users) - 1]
       IN /\ users[Len(users)] = last.user_input
          /\ last.agent.retrieved_on
                = IF strip(lower(previous)) = strip(lower(last.user_input))
                  THEN last.user_input
                  ELSE previous \o ElaborateSuffix

\* The follow-up came right after the question and was expanded from it
ExpandedFromQuestion ==
    /\ last.op = "process_message" /\ last.agent.intent = FOLLOWUP
    /\ last.user_input = In_More
    /\ last.agent.retrieved_on = In_Query \o ElaborateSuffix

\* The follow-up was the first idle turn and was expanded from the phone
\* number typed during the opening collection
ExpandedFromPhone ==
    /\ last.op = "process_message" /\ last.agent.intent = FOLLOWUP
    /\ last.agent.retrieved_on = In_Phone \o ElaborateSuffix

\* The follow-up repeated the question in other letters and was retrieved
\* on as typed although an earlier question exists
RepeatedQuestion ==
    /\ last.op = "process_message" /\ last.agent.intent = FOLLOWUP
    /\ last.user_input = In_QueryUpper
    /\ last.agent.retrieved_on = In_QueryUpper
    /\ In_Query \in Range(UserMessages(History(last.session_id)))

-----------------------------------------------------------------------------
(* retrieve_relevant_documents on its own: one call, on any list of at    *)
(* most MaxCandidates distinct passages of the pool below (SpecRetrieve)   *)

MaxCandidates == 4

\* Passages of two sources at 0.3, 0.5, 0.9, 1.2, 1.5, 1.8 and 2.0
PassagePool ==
    {Passage(<<"p1">>, "privacy.pdf", 3, 2), Passage(<<"p2">>, "privacy.pdf", 12, 7),
     Passage(<<"p3">>, "about.pdf", 12, 5), Passage(<<"p4">>, "privacy.pdf", 15, 9),
     Passage(<<"p5">>, "about.pdf", 18, 8), Passage(<<"p6">>, "privacy.pdf", 20, 1),
     Passage(<<"p7">>, "privacy.pdf", 5, 4), Passage(<<"p8">>, "privacy.pdf", 9, 6)}

\* The lists of distinct passages the vector store can answer with
RECURSIVE CandidateLists(_)
CandidateLists(n) ==
    IF n = 0 THEN {<<>>}
    ELSE LET shorter == CandidateLists(n - 1) IN
         shorter \cup {Append(list, passage) :
                          list \in {l \in shorter : Len(l) = n - 1},
                          passage \in PassagePool}

DistinctLists == {list \in CandidateLists(MaxCandidates) :
                     \A i, j \in DOMAIN list : i # j => list[i] # list[j]}

Retrieved(n_results, retrieval, reranker, result) ==
    [op |-> "retrieve_relevant_documents", session_id |-> "", n_results |-> n_results,
     retrieval |-> retrieval, reranker |-> reranker, result |-> result]

\* retrieve_relevant_documents(query, n_results)
RetrieveRelevantDocuments ==
    /\ last.op # "retrieve_relevant_documents"
    /\ \E n_results \in {DefaultNResults, FollowupNResults},
          retrieval \in {StoreDown} \cup {Found(list) : list \in DistinctLists},
          reranker \in {"none", "ok", "raises"} :
          last' = Retrieved(n_results, retrieval, reranker,
                            retrieve_relevant_documents(n_results, retrieval, reranker))
    /\ UNCHANGED <<session_manager, mongodb_client, sessions, contact_requests, issued,
                   memory_manager, front_end>>

SpecRetrieve == Init /\ [][RetrieveRelevantDocuments]_vars

\* The candidates of the call whose distance is strictly below 1.5, in the
\* order the store returned them
Survivors(retrieval) ==
    IF retrieval.raises THEN <<>>
    ELSE SelectSeq(retrieval.results, LAMBDA r : r.distance < DistanceThreshold)

\* Where a passage stands in a list of distinct passages
IndexIn(list, passage) == CHOOSE i \in DOMAIN list : list[i] = passage

\* C29: the call returns exactly the candidates whose distance is strictly
\* below 1.5, and with re-ranking disabled in the relative order in which
\* the store returned them.
C29_ExactlyBelowThreshold ==
    last.op = "retrieve_relevant_documents"
    => /\ Range(last.result) = Range(Survivors(last.retrieval))
       /\ last.reranker = "none" => last.result = Survivors(last.retrieval)

\* C29 as the code has it: every returned passage is a candidate whose
\* distance is strictly below 1.5, and none is returned twice; with
\* re-ranking disabled a candidate below 1.5 is returned exactly when fewer
\* than MaxPerSource candidates below 1.5 of its own source precede it, the
\* returned passages of one source are in the order the store returned
\* them, and the passages are grouped in rounds: the first of every source,
\* then the second of every source, then the third.
C29_FilterThenDiversify ==
    last.op = "retrieve_relevant_documents"
    => LET survivors == Survivors(last.retrieval)
           result == last.result
           \* how many survivors of the source of survivors[i] precede it
           rank(i) == Cardinality({j \in 1..(i - 1) :
                                      survivors[j].source = survivors[i].source})
       IN /\ Range(result) \subseteq Range(survivors)
          /\ \A i, j \in DOMAIN result : i # j => result[i] # result[j]
          /\ \A i \in DOMAIN result : result[i].distance < DistanceThreshold
          /\ last.reranker = "none"
             => /\ \A i \in DOMAIN survivors :
                     survivors[i] \in Range(result) <=> rank(i) < MaxPerSource
                /\ \A i, j \in DOMAIN result :
                     LET a == IndexIn(survivors, result[i])
                         b == IndexIn(survivors, result[j])
                     IN i < j => \/ rank(a) < rank(b)
                                 \/ rank(a) = rank(b) /\ a < b

\* Re-ranking disabled, the store answered p1, p2 (privacy.pdf), p3
\* (about.pdf), all below 1.5, and p3 was returned before p2
C29_Witness ==
    /\ last.op = "retrieve_relevant_documents" /\ last.reranker = "none"
    /\ Len(Survivors(last.retrieval)) = 3
    /\ last.result # Survivors(last.retrieval)
    /\ Range(last.result) = Range(Survivors(last.retrieval))

\* Distances 0.3, 1.2, 1.8, 2.0: exactly two passages are returned
TwoSurvivors ==
    /\ last.op = "retrieve_relevant_documents"
    /\ ~last.retrieval.raises
    /\ [i \in DOMAIN last.retrieval.results |-> last.retrieval.results[i].distance]
          = <<3, 12, 18, 20>>
    /\ Len(last.result) = 2

\* Four candidates of one source below 1.5: the fourth is dropped
FourthOfSourceDropped ==
    /\ last.op = "retrieve_relevant_documents" /\ last.reranker = "none"
    /\ Len(Survivors(last.retrieval)) = 4
    /\ Len(last.result) = 3

-----------------------------------------------------------------------------
(* Sessions that are ended: at any point of a conversation, with or       *)
(* without a Mongo client, Redis answering or not (SpecEnd)                *)

Ended(session_id, outcome, raised) ==
    [op |-> "end_session", session_id |-> session_id, outcome |-> outcome, raised |-> raised]

EndOpening == OpeningTurn(IdleScripts)

MaxSessionDocs == 2

\* chatbot.end_session(session_id), for a session id that was issued or
\* for none, while the collection holds fewer than MaxSessionDocs documents
EndSession ==
    \E session_id \in issued \cup {""}, outcome \in SaveOutcomes :
        /\ Len(sessions) < MaxSessionDocs
        /\ \E after \in {end_session(session_manager, sessions, mongodb_client, session_id,
                                  outcome)} :
              /\ session_manager' = after.sm
              /\ sessions' = after.db
              /\ last' = Ended(session_id, outcome, after.raised)
              /\ UNCHANGED <<mongodb_client, contact_requests, issued, memory_manager,
                             front_end>>

NextEnd == StartSession \/ EndOpening \/ RedisFails \/ EndSession

SpecEnd == Init /\ [][NextEnd]_vars

\* The document end_session hands to the collection "sessions"
SessionDoc(session_id, history, details) ==
    [session_id |-> session_id, conversation_history |-> history,
     user_details |-> details, message_count |-> Len(history)]

\* C30: end_session saves the history and the user details as they were
\* before the clear, exactly when a Mongo client is configured and the
\* history is not empty; whatever the save does, the session is cleared
\* afterwards, and end_session does not raise.
C30_EndSession ==
    [][(last'.op = "end_session" /\ last'.session_id # "")
       => LET session_id == last'.session_id
              history == get_session_history(session_manager, session_id, NoLimit)
              details == get_contact_form_data(session_manager, session_id)
          IN /\ sessions' = IF mongodb_client /\ history # <<>>
                               /\ last'.outcome \in {"ok", "verify_error"}
                            THEN Append(sessions, SessionDoc(session_id, history, details))
                            ELSE sessions
             /\ ~is_session_valid(session_manager', session_id)
             /\ ~session_manager.redis_available
                => /\ get_session_history(session_manager', session_id, NoLimit) = <<>>
                   /\ get_contact_form_data(session_manager', session_id) = EmptyDict
             /\ (session_manager.redis_available /\ session_manager.redis_reachable)
                => SessionKey(session_id) \notin DOMAIN session_manager'.redis
             /\ ~last'.raised]_vars

\* A conversation of six messages was saved with the details collected,
\* and the session is gone
C30_Witness ==
    /\ last.op = "end_session" /\ last.outcome = "ok"
    /\ Len(sessions) = 1
    /\ sessions[1].message_count > 6
    /\ "mobile" \in DOMAIN sessions[1].user_details
    /\ ~is_session_valid(session_manager, last.session_id)

\* The save failed and the session was cleared all the same
ClearedAfterFailedSave ==
    /\ last.op = "end_session" /\ last.outcome \in {"insert_error", "raises"}
    /\ mongodb_client /\ sessions = <<>>
    /\ ~session_manager.redis_available
    /\ last.session_id \notin DOMAIN session_manager.memory_sessions
    /\ last.session_id \in issued

-----------------------------------------------------------------------------
(* _diversify_by_source on its own: one call, on any list of at most      *)
(* MaxCandidates distinct passages of the pool and on the longer lists    *)
(* below (SpecDiversify)                                                   *)

LongLen == 14
Sources == <<"privacy.pdf", "about.pdf", "terms.pdf", "faq.pdf">>

\* LongLen passages, the sources taking turns; the same passages source
\* after source; and with most passages from one source
Alternating == [i \in 1..LongLen |-> Passage(<<"q", i>>, Sources[(i % 4) + 1], i, i)]
Grouped == [i \in 1..LongLen |-> Passage(<<"q", i>>, Sources[((i - 1) \div 4) + 1], i, i)]
Lopsided == [i \in 1..LongLen |-> Passage(<<"q", i>>, Sources[IF i % 5 = 0 THEN 2 ELSE 1], i, i)]

DiversifyInputs ==
    DistinctLists
    \cup {SubSeq(list, 1, n) : list \in {Alternating, Grouped, Lopsided}, n \in 5..LongLen}

Diversified(results, max_per_source, result) ==
    [op |-> "diversify_by_source", session_id |-> "", results |-> results,
     max_per_source |-> max_per_source, result |-> result]

\* self._diversify_by_source(results, max_per_source)
DiversifyBySource ==
    /\ last.op # "diversify_by_source"
    /\ \E results \in DiversifyInputs, max_per_source \in 1..MaxPerSource :
          last' = Diversified(results, max_per_source,
                              diversify_by_source(results, max_per_source))
    /\ UNCHANGED <<session_manager, mongodb_client, sessions, contact_requests, issued,
                   memory_manager, front_end>>

SpecDiversify == Init /\ [][DiversifyBySource]_vars

\* How many passages of the source of list[i] stand before it in list
RankInSource(list, i) ==
    Cardinality({j \in 1..(i - 1) : list[j].source = list[i].source})

\* C31: the result holds no passage twice and only passages of the input,
\* at most max_per_source of one source and at most 10 in all; the k-th
\* passage of every source precedes the (k+1)-th passage of any source,
\* and the passages of one source are in input order.
C31_Diversify ==
    last.op = "diversify_by_source"
    => LET results == last.results
           result == last.result
           at(i) == IndexIn(results, result[i])
       IN /\ Range(result) \subseteq Range(results)
          /\ \A i, j \in DOMAIN result : i # j => result[i] # result[j]
          /\ \A i \in DOMAIN result : RankInSource(result, i) < last.max_per_source
          /\ Len(result) <= MaxDiversified
          /\ \A i, j \in DOMAIN result :
               /\ RankInSource(results, at(i)) < RankInSource(results, at(j)) => i < j
               /\ (result[i].source = result[j].source /\ at(i) < at(j)) => i < j
          \* the round-robin takes from the front of every source
          /\ \A i \in DOMAIN result : RankInSource(result, i) = RankInSource(results, at(i))

\* Twelve passages qualified, ten were returned, and a passage of the
\* second source was returned before the second passage of the first
C31_Witness ==
    /\ last.op = "diversify_by_source" /\ last.max_per_source = MaxPerSource
    /\ Len(last.results) = LongLen
    /\ Len(last.result) = MaxDiversified
    /\ last.result # SubSeq(last.results, 1, MaxDiversified)
    /\ last.result[1].source = last.result[5].source
    /\ last.result[2].source # last.result[1].source

-----------------------------------------------------------------------------
(* The re-ranker: one call of rerank, and one call of                     *)
(* retrieve_relevant_documents with a re-ranker configured, the model     *)
(* scoring or failing (SpecRerank)                                         *)

Reranked(documents, top_k, reranker, called, result) ==
    [op |-> "rerank", session_id |-> "", documents |-> documents, top_k |-> top_k,
     reranker |-> reranker, called |-> called, result |-> result]

\* self.reranker.rerank(query, documents, top_k)
Rerank ==
    /\ last.op = "init"
    /\ \E documents \in DiversifyInputs, top_k \in {1, 3, RerankTopK},
          reranker \in {"ok", "raises"} :
          last' = Reranked(documents, top_k, reranker, model_called(documents),
                           rerank(documents, top_k, reranker))
    /\ UNCHANGED <<session_manager, mongodb_client, sessions, contact_requests, issued,
                   memory_manager, front_end>>

\* retrieve_relevant_documents(query, n_results) with re-ranking enabled
RetrieveReranked ==
    /\ last.op = "init"
    /\ \E n_results \in {DefaultNResults, FollowupNResults},
          list \in DiversifyInputs, reranker \in {"ok", "raises"} :
          last' = Retrieved(n_results, Found(list), reranker,
                            retrieve_relevant_documents(n_results, Found(list), reranker))
    /\ UNCHANGED <<session_manager, mongodb_client, sessions, contact_requests, issued,
                   memory_manager, front_end>>

NextRerank == Rerank \/ RetrieveReranked

SpecRerank == Init /\ [][NextRerank]_vars

\* The first n elements of a list
FirstOf(list, n) == [i \in 1..(IF Len(list) < n THEN Len(list) ELSE n) |-> list[i]]

\* C32: when the model raises, rerank returns the candidates in their
\* order cut to top_k; on no candidates it returns the empty list and the
\* model is not called; and retrieve_relevant_documents with a failing
\* re-ranker still returns passages that passed the filter, at least one
\* when one passed: the first top_k of them, diversified.
C32_RerankFailure ==
    /\ last.op = "rerank"
       => /\ last.reranker = "raises" => last.result = FirstOf(last.documents, last.top_k)
          /\ last.documents = <<>> => last.result = <<>> /\ ~last.called
          /\ last.documents # <<>> => last.called /\ last.result # <<>>
    /\ (last.op = "retrieve_relevant_documents" /\ last.reranker = "raises")
       => LET survivors == Survivors(last.retrieval) IN
          /\ Range(last.result) \subseteq Range(survivors)
          /\ survivors # <<>> => last.result # <<>>
          /\ Range(last.result) \subseteq Range(FirstOf(survivors, RerankTopK))
          /\ Len(survivors) <= MaxPerSource => Range(last.result) = Range(survivors)
          /\ Len(survivors) <= RerankTopK
             => last.result = retrieve_relevant_documents(last.n_results, last.retrieval, "none")

\* The model failed on more candidates than top_k and the first top_k
\* came back in their order
C32_Witness ==
    /\ last.op = "rerank" /\ last.reranker = "raises" /\ last.top_k = 3
    /\ Len(last.documents) > 3
    /\ last.result = SubSeq(last.documents, 1, 3)
    /\ last.result # rerank(last.documents, 3, "ok")

\* The re-ranker failed during a retrieval and passages were returned
RetrievedWithoutReranking ==
    /\ last.op = "retrieve_relevant_documents" /\ last.reranker = "raises"
    /\ Len(last.result) >= 2

-----------------------------------------------------------------------------
(* Turns whose generation call answers the sentinel text, a statement of  *)
(* no information, an answer, or raises, under every classification, on   *)
(* idle sessions and on sessions in a collection (SpecSentinel)            *)

SentinelClassifiers ==
    {Raises} \cup {Reply(lower(CategoryNames[i])) : i \in DOMAIN CategoryNames}

SentinelGenerations ==
    {Raises, Reply(T_Sentinel), Reply(<<" ">> \o T_Sentinel \o <<"\n">>), Reply(T_NoInfo),
     Reply(T_Answer)}

SentinelEnvs ==
    {MakeEnv(classifier, llm, retrieval, "ok", 1, "ok") :
        classifier \in SentinelClassifiers, llm \in SentinelGenerations,
        retrieval \in {StoreDown, Found(<<D_Far>>), Found(<<D_Good, D_Far>>)}}

SentinelScripts == {IdleWithDetails, IdleDeclined, CollectConsented, CollectReentry}

SentinelOpening == OpeningTurn(SentinelScripts)

SentinelTurn == LaterTurn(SentinelScripts, MaxIdleTurns, IdleInputs, SentinelEnvs)

NextSentinel == StartSession \/ SentinelOpening \/ SentinelTurn

SpecSentinel == Init /\ [][NextSentinel]_vars

C34_ConsentOnlyWithoutPassage ==
    [][(/\ last'.op = "process_message"
        /\ get_contact_form_state(session_manager', last'.session_id) = ASKING_CONSENT)
       => /\ get_contact_form_state(session_manager, last'.session_id) = IDLE
          /\ last'.agent.intent = QUERY
          /\ NoPassageSurvives(last'.env.retrieval)]_vars

\* What the code does instead: asking_consent is stored only from idle,
\* on a turn that is no explicit contact request and whose agent response
\* is the sentinel, whatever the intent and whatever was retrieved
ConsentOnlyOnSentinel ==
    [][(/\ last'.op = "process_message"
        /\ get_contact_form_state(session_manager', last'.session_id) = ASKING_CONSENT)
       => /\ get_contact_form_state(session_manager, last'.session_id) = IDLE
          /\ last'.route = "agent"
          /\ last'.agent.intent # CONTACT_REQUEST
          /\ last'.agent.response = TRIGGER_CONTACT_FORM]_vars

\* A follow-up answered with the sentinel text moved the session to
\* asking_consent although a passage had survived
FollowupAsksConsent ==
    /\ last.op = "process_message" /\ last.agent.intent = FOLLOWUP
    /\ ~NoPassageSurvives(last.env.retrieval)
    /\ StoredState(last.session_id) = ASKING_CONSENT

\* A query with a surviving passage, answered "I don't have specific
\* information", moved the session to asking_consent
QueryWithPassageAsksConsent ==
    /\ last.op = "process_message" /\ last.agent.intent = QUERY
    /\ last.agent.context_docs # <<>>
    /\ last.env.llm.content = T_NoInfo
    /\ StoredState(last.session_id) = ASKING_CONSENT

-----------------------------------------------------------------------------
(* The states process_message stores (SpecCollect)                         *)

\* The states handle_contact_form_step has a branch for
BranchStates == FieldStates \cup {ASKING_CONSENT}

\* C35: the state process_message stores is one of ContactFormState and,
\* when it is not idle, one handle_contact_form_step has a branch for; the
\* fallback branch ("Something went wrong. Let's start over.") is never
\* taken, and the message after a completed contact request is handled by
\* the agent.
C35_NoFallbackBranch ==
    last.op = "process_message"
    => /\ StoredState(last.session_id) \in ContactFormState
       /\ StoredState(last.session_id) # IDLE => StoredState(last.session_id) \in BranchStates
       /\ last.response # StartOverPrompt
       /\ last.form_state = COMPLETED => last.route = "agent"

\* What the code does instead: every stored state is one of
\* ContactFormState; the only one without a branch is completed, stored by
\* the turn that completes a contact request; the turn after it takes the
\* fallback branch, answers "Something went wrong" and stores idle; no
\* other turn takes that branch.
FallbackOnlyAfterCompletion ==
    last.op = "process_message"
    => /\ StoredState(last.session_id) \in ContactFormState
       /\ StoredState(last.session_id) \notin BranchStates \cup {IDLE}
          => /\ StoredState(last.session_id) = COMPLETED
             /\ last.form_state = COLLECTING_TIMEZONE
       /\ last.form_state = COMPLETED
          => /\ last.route = "contact_form"
             /\ last.response = StartOverPrompt
             /\ StoredState(last.session_id) = IDLE
             /\ StoredData(last.session_id) = EmptyDict
       /\ last.response = StartOverPrompt => last.form_state = COMPLETED

\* The message after a completed contact request was answered
\* "Something went wrong. Let's start over."
StartOverAfterCompletion ==
    /\ last.op = "process_message" /\ last.form_state = COMPLETED
    /\ last.response = StartOverPrompt
    /\ Len(contact_requests) = 1

\* C36: in collecting_email the stored form data holds name, in
\* collecting_phone name and email, in collecting_datetime and
\* collecting_timezone non-empty name, email and mobile (and in
\* collecting_timezone the preferred date and time): the completing step
\* finds every field of the contact request, and with a Mongo client whose
\* insert succeeds the request is filed with them.
C36_FieldsCollectedSoFar ==
    /\ \A session_id \in issued :
          LET state == StoredState(session_id)
              data == StoredData(session_id)
          IN /\ state = COLLECTING_EMAIL => DictTruthy(data, "name")
             /\ state = COLLECTING_PHONE => DictTruthy(data, "name") /\ DictTruthy(data, "email")
             /\ state \in {COLLECTING_DATETIME, COLLECTING_TIMEZONE} => HoldsContactData(data)
             /\ state = COLLECTING_TIMEZONE => DictTruthy(data, "preferred_datetime")
    /\ (/\ last.op = "process_message" /\ last.form_state = COLLECTING_TIMEZONE
        /\ last.step.next_state = COMPLETED
        /\ mongodb_client /\ last.env.mongo # "insert_error")
       => /\ contact_requests # <<>>
          /\ LET filed == contact_requests[Len(contact_requests)] IN
             /\ filed.session_id = last.session_id
             /\ filed.name # <<>> /\ filed.email # <<>> /\ filed.mobile # <<>>
             /\ filed.preferred_datetime # <<>>
             /\ filed.timezone = strip(last.user_input)

\* A collection started by consent reached collecting_timezone with the
\* five values collected on the way
C36_Witness ==
    /\ last.op = "process_message" /\ last.form_state = COLLECTING_DATETIME
    /\ StoredState(last.session_id) = COLLECTING_TIMEZONE
    /\ DOMAIN StoredData(last.session_id)
          = {"original_query", "name", "email", "mobile", "preferred_datetime"}
    /\ ConsentYesPrompt \in {History(last.session_id)[i].message :
                                i \in DOMAIN History(last.session_id)}

-----------------------------------------------------------------------------
(* The history a conversation leaves (SpecFail)                            *)

\* C37: on the in-memory backend a process_message call that does not
\* return the generic apology appends exactly two entries to the
\* session's history, the user's message and then the returned response
\* as the bot's; the history alternates user, bot from its first entry and
\* its last entry is the response returned.
C37_HistoryAlternates ==
    [][(/\ last'.op = "process_message"
        /\ ~session_manager.redis_available
        /\ last'.response # MessageErrorApology)
       => LET session_id == last'.session_id
              before == get_session_history(session_manager, session_id, NoLimit)
              after == get_session_history(session_manager', session_id, NoLimit)
          IN /\ after = before \o <<HistoryEntry("user", last'.user_input),
                                     HistoryEntry("bot", last'.response)>>
             /\ \A i \in DOMAIN after :
                   after[i].role = IF i % 2 = 1 THEN "user" ELSE "bot"
             /\ after[Len(after)].message = last'.response]_vars

\* Three turns on the in-memory backend, the third an agent turn, left
\* six entries
C37_Witness ==
    /\ last.op = "process_message" /\ last.route = "agent"
    /\ ~session_manager.redis_available
    /\ Len(History(last.session_id)) >= 6
    /\ History(last.session_id)[Len(History(last.session_id))]
          = HistoryEntry("bot", last.response)

-----------------------------------------------------------------------------
(* Active sessions: turns with pauses shorter than the session timeout    *)
(* between them (SpecActive)                                               *)

MaxActiveTurns == 3
ActiveInputs == {In_Hi}
ActiveEnvs == {Env_Greeting, Env_Answered}
ActiveScripts == {IdleWithDetails}

ActiveOpening == OpeningTurn(ActiveScripts)

ActiveTurn == LaterTurn(ActiveScripts, MaxActiveTurns, ActiveInputs, ActiveEnvs)

\* A time step in which no method is called, the time since the last call
\* staying below the session timeout
ShortPause ==
    /\ issued # {}
    /\ Idle + 1 < SessionTimeout
    /\ session_manager' = time_passes(session_manager)
    /\ memory_manager' = time_passes(memory_manager)
    /\ last' = [op |-> "time_passes", session_id |-> "", idle |-> Idle + 1]
    /\ UNCHANGED <<mongodb_client, sessions, contact_requests, issued, front_end>>

NextActive == StartSession \/ ActiveOpening \/ ActiveTurn \/ ShortPause

SpecActive == Init /\ [][NextActive]_vars

\* The session has taken its first turn on a Redis that answers
TookTurn(session_id) ==
    /\ session_manager.redis_available /\ session_manager.redis_reachable
    /\ HistoryKey(session_id) \in DOMAIN session_manager.redis

\* C38: on Redis, while the pauses between the turns of a session are
\* shorter than the timeout, none of its keys expires: the contact-form
\* state and the contact-form data written during the initial collection
\* are there as long as the session key is, also when the later turns are
\* handled in state idle.
C38_KeysOfActiveSession ==
    \A session_id \in issued :
        (TookTurn(session_id) /\ SessionKey(session_id) \in DOMAIN session_manager.redis)
        => /\ StateKey(session_id) \in DOMAIN session_manager.redis
           /\ DataKey(session_id) \in DOMAIN session_manager.redis
           /\ Len(UserMessages(History(session_id))) >= Len(IdleWithDetails)
              => HoldsContactData(StoredData(session_id))

\* What holds instead: the session key and the history key, written by
\* every turn, are there throughout; the form state and form data keys
\* are there for the timeout after the last turn that wrote them
WrittenKeysOfActiveSession ==
    \A session_id \in issued :
        (session_manager.redis_available /\ session_manager.redis_reachable)
        => /\ SessionKey(session_id) \in DOMAIN session_manager.redis
           /\ TookTurn(session_id)
              => /\ session_manager.ttl[HistoryKey(session_id)] + Idle = SessionTimeout
                 /\ session_manager.ttl[SessionKey(session_id)] + Idle = SessionTimeout
           /\ last.op = "process_message" /\ last.route = "contact_form"
              => /\ session_manager.ttl[DataKey(session_id)] = SessionTimeout
                 /\ session_manager.ttl[StateKey(session_id)] = SessionTimeout

\* The session is alive and has been answered in state idle, and the
\* details collected at its start are gone
DetailsExpired ==
    /\ last.op = "process_message" /\ last.route = "agent"
    /\ is_session_valid(session_manager, last.session_id)
    /\ session_manager.redis_available
    /\ DataKey(last.session_id) \notin DOMAIN session_manager.redis
    /\ StoredData(last.session_id) = EmptyDict
    /\ Len(History(last.session_id)) > 2 * Len(IdleWithDetails)

-----------------------------------------------------------------------------
(* Clients that disconnect (SpecDisconnect).  disconnect has no await: it *)
(* runs on the event loop in one piece, while the process_message calls   *)
(* on the executor's threads go on; it cancels no task.  One client      *)
(* connects.                                                               *)

\* connect(sid) of the first client
ConnectFirst == issued = {} /\ Connect

\* disconnect(sid): end_session inside a bare try/except, then the entries
\* of the client are deleted
Disconnect ==
    \E sid \in DOMAIN clients, outcome \in SaveOutcomes :
        \E after \in {end_session(session_manager, sessions, mongodb_client, clients[sid],
                                  outcome)} :
            /\ session_manager' = after.sm
            /\ sessions' = after.db
            /\ clients' = DictPop(clients, sid)
            /\ active_responses' = DictPop(active_responses, sid)
            /\ last' = ServerCall("disconnect", sid, clients[sid], NoTask)
            /\ UNCHANGED <<mongodb_client, contact_requests, issued, memory_manager, tasks,
                           emitted>>

NextDisconnect ==
    \/ ConnectFirst
    \/ TextQuery
    \/ TextOnlyQuery
    \/ CallBegins
    \/ CallReturns
    \/ Responds
    \/ StreamsAudio
    \/ Disconnect

SpecDisconnect == Init /\ [][NextDisconnect]_vars

\* The sessions whose client has disconnected, and the clients gone
EndedSessions == {session_id \in issued : \A sid \in DOMAIN clients : clients[sid] # session_id}
GoneClients == DOMAIN emitted \ DOMAIN clients

\* C39: once disconnect has finished for a client, nothing of the client's
\* session is in the session store, then or later, also when a
\* process_message call for the session was running on the executor at the
\* time; and nothing more is emitted to the client.
C39_NothingAfterDisconnect ==
    [][/\ \A session_id \in EndedSessions' :
             Observed(session_manager', session_id) = Absent
       /\ \A sid \in GoneClients : emitted'[sid] = emitted[sid]]_vars

\* What holds instead: on the in-memory backend the store holds nothing of
\* the session when disconnect finishes; afterwards only the steps of the
\* process_message calls still on the executor write to the session, and
\* only the coroutines waiting for them emit to the client
DisconnectThenCallsGoOn ==
    [][/\ (last'.op = "disconnect" /\ ~session_manager.redis_available)
          => Observed(session_manager', last'.session_id) = Absent
       /\ \A session_id \in EndedSessions :
             Observed(session_manager', session_id) # Observed(session_manager, session_id)
             => (last'.op = "process_message" /\ last'.session_id = session_id)
       /\ \A sid \in GoneClients :
             emitted'[sid] # emitted[sid]
             => (last'.op \in {"respond", "stream_audio_to_client"} /\ last'.sid = sid)]_vars

\* In memory: the call that was on its thread when the client left has
\* returned, and the session has a history and a form state again
RecreatedAfterDisconnect ==
    /\ ~session_manager.redis_available
    /\ last.op = "process_message" /\ last.session_id \in EndedSessions
    /\ tasks[last.task].call = "returned"
    /\ History(last.session_id) # <<>>
    /\ StoredData(last.session_id) # EmptyDict

\* The coroutine of a client that has left reports the KeyError to it
ErrorAfterDisconnect ==
    /\ last.op = "respond" /\ last.sid \in GoneClients
    /\ emitted[last.sid][Len(emitted[last.sid])] = Event("error", last.task)

-----------------------------------------------------------------------------
(* Interruption signals of the front end (SpecServer)                      *)

\* The events emitted to `sid` in the step
NewEvents(sid) ==
    SubSeq(DictGet(emitted', sid, <<>>), Len(DictGet(emitted, sid, <<>>)) + 1,
           Len(DictGet(emitted', sid, <<>>)))

Signalled(sid) ==
    \E i \in DOMAIN NewEvents(sid) : NewEvents(sid)[i].event = "response_interrupted"

\* The coroutine of the task has neither finished nor been cancelled
InFlight(task) == tasks[task].pc \in {"executor", "respond", "stream"}

\* The response tasks of the client that are in flight
RunningResponses(sid) ==
    {task \in DOMAIN tasks : tasks[task].sid = sid /\ tasks[task].kind = "text_query"
                             /\ InFlight(task)}

\* C40: response_interrupted is emitted to a client only by a text_query
\* that finds the client's previous response task still in flight; a
\* text_query arriving after the previous response has completed emits
\* none; and at most one response task per client is in flight.
C40_InterruptedOnlyInFlight ==
    [][\A sid \in DOMAIN clients :
          /\ Signalled(sid)
             => /\ last'.op = "text_query" /\ last'.sid = sid
                /\ active_responses[sid].task # NoTask
                /\ InFlight(active_responses[sid].task)
          /\ Cardinality(RunningResponses(sid)') <= 1]_vars

\* What holds instead: response_interrupted is emitted by exactly the
\* text_query events of a client that has had a response task before,
\* finished or not; and at most one response task per client is in flight
InterruptedAfterAnyResponse ==
    [][\A sid \in DOMAIN clients :
          /\ Signalled(sid)
             <=> /\ last'.op = "text_query" /\ last'.sid = sid
                 /\ active_responses[sid].task # NoTask
          /\ Cardinality(RunningResponses(sid)') <= 1]_vars

\* A text_query after the previous response was streamed to its end: the
\* client is told that a response was interrupted
InterruptedNothing ==
    /\ last.op = "text_query" /\ last.task # NoTask /\ last.task > 1
    /\ \E previous \in DOMAIN tasks :
          /\ tasks[previous].sid = last.sid /\ tasks[previous].pc = "done"
          /\ \E i, j \in DOMAIN emitted[last.sid] :
                /\ i < j
                /\ emitted[last.sid][i] = Event("audio_end", previous)
                /\ emitted[last.sid][j] = Event("response_interrupted", previous)

\* A text_query that cancels the response in flight
InterruptedInFlight ==
    /\ last.op = "text_query" /\ last.task # NoTask
    /\ \E previous \in DOMAIN tasks :
          /\ tasks[previous].sid = last.sid /\ tasks[previous].pc = "cancelled"
          /\ RunningResponses(last.sid) = {last.task}

====
